---- MODULE Spec2Model ----
(***************************************************************************)
(* A model of the racing game: the sketch's state machine (menu, level     *)
(* select, race, result screens), the lap and checkpoint tracking of the    *)
(* player car and the opponent cars, the ranking, the nitro gauge, and the  *)
(* track queries.                                                           *)
(*                                                                          *)
(* Real-valued geometry is not computed in the specifications Spec,         *)
(* SpecRace, SpecLap, SpecNitro and SpecRank: whether a car is within       *)
(* waypointReachDistance of its target is an input of each frame drawn with *)
(* \E, and the position and velocity of a car are two-valued stamps that    *)
(* every integration step flips, so that a car is unchanged exactly when no *)
(* step wrote it.  SpecSpeed computes the position and the velocity of the  *)
(* player on a line, in hundredths; SpecTrack, SpecBoundary and            *)
(* SpecCollision call the track queries with the distances drawn;           *)
(* SpecGenerate builds the obstacle list of a track from drawn random       *)
(* numbers; SpecSteer keeps the heading of the player and the keys held;    *)
(* SpecVehicule and SpecOrder compute the opponents on a line; SpecOil      *)
(* drives the player along a road through a cone and an oil slick;         *)
(* SpecStart starts a race from the level-select screen with every         *)
(* opponent of the level.                                                  *)
(***************************************************************************)
EXTENDS Integers, Sequences, FiniteSets, TLC

VARIABLES
    gameState,       \* sketch.js gameState
    currentLevel,    \* sketch.js currentLevel
    levelSelect,     \* LevelSelect: [unlockedLevel, selectedLevel]
    storage,         \* localStorage 'raceGame_unlockedLevel' (0: no item)
    track,           \* Track: [level, n, obstacles, trackWidth] with
                     \* n = waypoints.length, obstacles = obstacles.length
    playerCar,       \* PlayerCar
    aiCars,          \* sequence of FollowerCar
    racePositions,   \* sketch.js racePositions
    raceFinished,    \* sketch.js raceFinished
    playerPosition,  \* sketch.js playerPosition
    winner,          \* sketch.js winner ("none" models null)
    scale,           \* the scale of the model, fixed by Init: [n, cars], the
                     \* waypoints of a generated track and the opponents kept
    outcome,         \* how the last call made on its own ended:
                     \* [call, error, neutral]
    keysDown         \* the keys held (p5 keyIsDown), kept in SpecSteer and
                     \* SpecOil; the other specifications draw the keys held
                     \* in each frame

vars == <<gameState, currentLevel, levelSelect, storage, track, playerCar,
          aiCars, racePositions, raceFinished, playerPosition, winner, scale, outcome,
          keysDown>>

raceVars == <<track, playerCar, aiCars, racePositions, raceFinished,
              playerPosition, winner>>

-----------------------------------------------------------------------------
(* Program constants *)

MAX_LEVEL == 10
LAPS_TO_WIN == 2
NumPoints == 80
NitroMaxFuel == 1000      \* nitroMaxFuel 100, in tenths
NitroDrainRate == 15      \* nitroDrainRate 1.5, in tenths
NitroRechargeRate == 3    \* nitroRechargeRate 0.3, in tenths
AutoNitroReserve == 300   \* autopilot engages nitro above fuel 30, in tenths
Maxspeed == 600            \* maxspeed 6, in hundredths
NitroMaxspeed == 1000      \* nitroMaxspeed 10, in hundredths
Maxforce == 35             \* maxforce 0.35, in hundredths
AccelerationPower == 18    \* acceleration_power 0.18, in hundredths
BrakePower == 12           \* brake_power 0.12, in hundredths
Friction == 97             \* friction 0.97, in hundredths
NitroBoostPower == 35      \* nitroBoostPower 0.35, in hundredths
WaypointReachDistance == 6500  \* waypointReachDistance 65, in hundredths
OilDuration == 60
ConeDuration == 30
DriftNormal == 90         \* drift_factor 0.90, in hundredths
DriftOil == 98            \* drift_factor 0.98, in hundredths
TurnSpeed == 65           \* turn_speed 0.065, in thousandths of a radian

(* Bounds of the model *)

TrackLen == 2     \* waypoints of a track raced outside Spec (the code generates NumPoints)
MaxCars == 1      \* opponents kept in SpecRace (the code creates NumCars(level))
MenuTrackLen == 1 \* waypoints of a track raced in Spec
MenuCars == 1     \* opponents kept in Spec
RankCars == 3     \* opponents ranked in SpecRank

Min(a, b) == IF a < b THEN a ELSE b
Max(a, b) == IF a > b THEN a ELSE b
Abs(a) == IF a < 0 THEN -a ELSE a

\* a / b rounded towards zero: lengths and speeds are kept in hundredths
Trunc(a, b) == IF a >= 0 THEN a \div b ELSE -((-a) \div b)

\* p5 map(value, start1, stop1, start2, stop2); it does not clamp
Map(value, start1, stop1, start2, stop2) ==
    start2 + Trunc((stop2 - start2) * (value - start1), stop1 - start1)

-----------------------------------------------------------------------------
(* LevelSelect *)

\* LevelSelect.saveProgress: the stored item becomes the unlocked level
SaveProgress(ls) == ls.unlockedLevel

\* LevelSelect.unlockLevel without its test: the level is assigned
UnlockLevelAssign(ls, level) == [ls EXCEPT !.unlockedLevel = level]

\* LevelSelect.unlockLevel, the value that replaces unlockedLevel
UnlockLevel(ls, level) ==
    IF level > ls.unlockedLevel THEN [ls EXCEPT !.unlockedLevel = level] ELSE ls

\* LevelSelect.resetProgress
ResetProgress(ls) == [ls EXCEPT !.unlockedLevel = 1]

\* CanStartSelected without its test
CanStartSelectedAlways(ls) == TRUE

\* LevelSelect.canStartSelected
CanStartSelected(ls) == ls.selectedLevel <= ls.unlockedLevel

\* LevelSelect.getLevelInfo: the opponents and laps shown for the level (name
\* and difficulty are texts looked up by level)
GetLevelInfo(level) == [aiCount |-> Min(4 + level, 10), laps |-> 2]

\* LevelSelect.handleClick: card is the level whose card holds the mouse, 0 for none
HandleClick(ls, card) ==
    IF card >= 1 THEN [ls |-> [ls EXCEPT !.selectedLevel = card], level |-> card]
    ELSE [ls |-> ls, level |-> -1]

-----------------------------------------------------------------------------
(* Track *)

\* new Track(level): generateCircuit pushes one waypoint per sample
\* Track.getTrackWidth, in pixels
GetTrackWidth(level) == Max(100, 160 - level * 6)

\* Track.generateObstacles: the number of obstacles pushed
GenerateObstacles(level, n) ==
    IF n < 10 THEN 0
    ELSE Min(level + 2, 12)
         + (IF level >= 4 THEN Min(level - 2, 6) ELSE 0)
         + (IF level >= 7 THEN Min(level - 5, 4) ELSE 0)

NewTrack(level, n) ==
    [level |-> level, n |-> n, obstacles |-> GenerateObstacles(level, n),
     trackWidth |-> GetTrackWidth(level)]

\* no call has been made on its own
NoCall == [call |-> "none", error |-> "none", neutral |-> TRUE]

\* a call that returned value, a call that threw error
Returned(value) == [error |-> "none", value |-> value]
Thrown(error) == [error |-> error, value |-> 0]

\* this.waypoints[i] is a vector; an index outside the array reads undefined
HasWaypoint(trk, i) == i \in 0..(trk.n - 1)

\* What a track query sees of a position: in.waypoints[i + 1] is waypoint i as
\* seen from the position, dist its distance in hundredths of a pixel and
\* toCenter (1 or -1) the direction to it on the line through both.

\* Track.getClosestWaypointIndex with "d <= closestDist" for its test: the last
\* of the nearest waypoints
RECURSIVE ClosestLastOnTies(_, _, _, _, _)
ClosestLastOnTies(trk, in, i, closestDist, closestIndex) ==
    IF ~(i < trk.n) THEN closestIndex
    ELSE LET d == in.waypoints[i + 1].dist
         IN  IF closestDist < 0 \/ d <= closestDist
             THEN ClosestLastOnTies(trk, in, i + 1, d, i)
             ELSE ClosestLastOnTies(trk, in, i + 1, closestDist, closestIndex)

GetClosestWaypointIndexLast(trk, in) == ClosestLastOnTies(trk, in, 0, -1, 0)

\* the loop of Track.getClosestWaypointIndex from index i on; closestDist -1
\* stands for Infinity
RECURSIVE ClosestFrom(_, _, _, _, _)
ClosestFrom(trk, in, i, closestDist, closestIndex) ==
    IF ~(i < trk.n) THEN closestIndex
    ELSE LET d == in.waypoints[i + 1].dist
         IN  IF closestDist < 0 \/ d < closestDist
             THEN ClosestFrom(trk, in, i + 1, d, i)
             ELSE ClosestFrom(trk, in, i + 1, closestDist, closestIndex)

\* Track.getClosestWaypointIndex: closestIndex starts at 0 and is returned as
\* it is when the loop finds no waypoint
GetClosestWaypointIndex(trk, in) == ClosestFrom(trk, in, 0, -1, 0)

\* Track.getTrackBoundaryForce with map(.., 0, 25, 0, 1.0) for its scale
GetTrackBoundaryForceFromZero(trk, in) ==
    LET closestIdx == GetClosestWaypointIndex(trk, in)
        maxDist == (trk.trackWidth * 100) \div 2 - 1500
    IN  IF ~HasWaypoint(trk, closestIdx) THEN Thrown("TypeError")
        ELSE LET trackCenter == in.waypoints[closestIdx + 1]
             IN  IF trackCenter.dist > maxDist
                 THEN Returned(trackCenter.toCenter
                               * Map(trackCenter.dist - maxDist, 0, 2500, 0, 100))
                 ELSE Returned(0)

\* Track.getTrackBoundaryForce: the value is the force along the line to the
\* closest waypoint, in hundredths (steer normalized, times the scale).
\* p5.Vector.dist(position, undefined) throws.
GetTrackBoundaryForce(trk, in) ==
    LET closestIdx == GetClosestWaypointIndex(trk, in)
        maxDist == (trk.trackWidth * 100) \div 2 - 1500
    IN  IF ~HasWaypoint(trk, closestIdx) THEN Thrown("TypeError")
        ELSE LET trackCenter == in.waypoints[closestIdx + 1]
             IN  IF trackCenter.dist > maxDist
                 THEN Returned(trackCenter.toCenter
                               * Map(trackCenter.dist - maxDist, 0, 2500, 30, 100))
                 ELSE Returned(0)

\* The radius of an obstacle of generateObstacles, in hundredths of a pixel
Radius(type) ==
    CASE type = "cone" -> 1200
      [] type = "barrier" -> 2500
      [] type = "oil" -> 3000

\* what checkObstacleCollision returns for no obstacle, and for obstacle i of
\* the list (obstacle 0 stands for null)
NoHit == [hit |-> FALSE, type |-> "null", obstacle |-> 0]
Hit(in, i) == [hit |-> TRUE, type |-> in.obstacles[i].type, obstacle |-> i]

\* Track.checkObstacleCollision returning the nearest of the obstacles whose
\* radius holds the position
CheckObstacleCollisionNearest(trk, in) ==
    LET hits == {i \in 1..trk.obstacles :
                    in.obstacles[i].dist < in.obstacles[i].radius}
    IN  IF hits = {} THEN Returned(NoHit)
        ELSE Returned(Hit(in, CHOOSE i \in hits :
                                 \A j \in hits :
                                    \/ in.obstacles[i].dist < in.obstacles[j].dist
                                    \/ /\ in.obstacles[i].dist = in.obstacles[j].dist
                                       /\ i <= j))

\* the loop of Track.checkObstacleCollision from obstacle i of the list on;
\* in.obstacles[i] is obstacle i as seen from the position: its type, its
\* radius and its distance dist in hundredths of a pixel
RECURSIVE CollisionFrom(_, _, _)
CollisionFrom(trk, in, i) ==
    IF i > trk.obstacles THEN NoHit
    ELSE IF in.obstacles[i].dist < in.obstacles[i].radius THEN Hit(in, i)
         ELSE CollisionFrom(trk, in, i + 1)

\* Track.checkObstacleCollision
CheckObstacleCollision(trk, in) == Returned(CollisionFrom(trk, in, 1))

\* Track.getObstacleAvoidanceForce: the magnitude of avoidForce in hundredths;
\* in.ahead says that an obstacle lies ahead within reach, at in.aheadDist
GetObstacleAvoidanceForce(trk, in) ==
    IF trk.obstacles = 0 \/ ~in.ahead
    THEN Returned(0)
    ELSE Returned(Map(in.aheadDist, 0, 6000, 150, 30))

-----------------------------------------------------------------------------
(* PlayerCar *)

\* new PlayerCar(startPos.x, startPos.y, track) followed by initLevel's velocity
NewPlayerCar ==
    [position |-> 0, velocity |-> 0,
     laps |-> 0, checkpointsReached |-> 0, lastCheckpoint |-> 0,
     finished |-> FALSE, autoMode |-> FALSE,
     nitroFuel |-> NitroMaxFuel, nitroActive |-> FALSE,
     onOil |-> FALSE, oilTimer |-> 0, slowdownTimer |-> 0,
     drift_factor |-> DriftNormal, angle |-> 1]

\* PlayerCar.handleInput, the nitro line (the thrust and steering lines act on
\* velocity and angle only)
HandleInput(car, in) ==
    [car EXCEPT !.nitroActive = in.nitroKey /\ car.nitroFuel > 0]

\* PlayerCar.handleAutoPilot: returns at once on a track without waypoints;
\* in.fast is velocity.mag() > 4 at its last statement
HandleAutoPilot(car, n, in) ==
    IF n = 0 THEN car
    ELSE [car EXCEPT !.nitroActive = in.fast /\ car.nitroFuel > AutoNitroReserve]

\* UpdateNitro without the max(0, ...) and min(nitroMaxFuel, ...) clamps
UpdateNitroUnclamped(car) ==
    IF car.nitroActive /\ car.nitroFuel > 0
    THEN [car EXCEPT !.nitroFuel = car.nitroFuel - NitroDrainRate]
    ELSE [car EXCEPT !.nitroFuel = car.nitroFuel + NitroRechargeRate]

\* PlayerCar.updateNitro
UpdateNitro(car) ==
    IF car.nitroActive /\ car.nitroFuel > 0
    THEN [car EXCEPT !.nitroFuel = Max(0, car.nitroFuel - NitroDrainRate)]
    ELSE [car EXCEPT !.nitroFuel = Min(NitroMaxFuel, car.nitroFuel + NitroRechargeRate)]

\* PlayerCar.update, friction to position.add: velocity and position are written
Integrate(car) ==
    [car EXCEPT !.velocity = 1 - car.velocity, !.position = 1 - car.position]

\* HandleObstacles with exclusive effects: a cone ends the oil effect and an
\* oil slick ends the cone slowdown
HandleObstaclesExclusive(car, in) ==
    LET c1 == IF in.hit = "cone"
              THEN [car EXCEPT !.slowdownTimer = ConeDuration, !.oilTimer = 0,
                               !.onOil = FALSE, !.drift_factor = DriftNormal]
              ELSE IF in.hit = "oil"
                   THEN [car EXCEPT !.onOil = TRUE, !.oilTimer = OilDuration,
                                    !.slowdownTimer = 0]
                   ELSE car
        c2 == IF c1.oilTimer > 0
              THEN IF c1.oilTimer - 1 <= 0
                   THEN [c1 EXCEPT !.oilTimer = 0, !.drift_factor = DriftNormal,
                                   !.onOil = FALSE]
                   ELSE [c1 EXCEPT !.oilTimer = c1.oilTimer - 1,
                                   !.drift_factor = DriftOil]
              ELSE c1
    IN  IF c2.slowdownTimer > 0
        THEN [c2 EXCEPT !.slowdownTimer = c2.slowdownTimer - 1]
        ELSE c2

\* HandleObstacles with the oil effect ended one update early: the reset is
\* taken when the timer reaches 1
HandleObstaclesOilShort(car, in) ==
    LET c1 == IF in.hit = "cone" THEN [car EXCEPT !.slowdownTimer = ConeDuration]
              ELSE IF in.hit = "oil"
                   THEN [car EXCEPT !.onOil = TRUE, !.oilTimer = OilDuration]
                   ELSE car
        c2 == IF c1.oilTimer > 0
              THEN IF c1.oilTimer - 1 <= 1
                   THEN [c1 EXCEPT !.oilTimer = 0, !.drift_factor = DriftNormal,
                                   !.onOil = FALSE]
                   ELSE [c1 EXCEPT !.oilTimer = c1.oilTimer - 1,
                                   !.drift_factor = DriftOil]
              ELSE c1
    IN  IF c2.slowdownTimer > 0
        THEN [c2 EXCEPT !.slowdownTimer = c2.slowdownTimer - 1]
        ELSE c2

\* PlayerCar.handleObstacles; in.hit is the type checkObstacleCollision reports
HandleObstacles(car, in) ==
    LET c1 == IF in.hit = "cone" THEN [car EXCEPT !.slowdownTimer = ConeDuration]
              ELSE IF in.hit = "oil"
                   THEN [car EXCEPT !.onOil = TRUE, !.oilTimer = OilDuration]
                   ELSE car
        c2 == IF c1.oilTimer > 0
              THEN IF c1.oilTimer - 1 <= 0
                   THEN [c1 EXCEPT !.oilTimer = 0, !.drift_factor = DriftNormal,
                                   !.onOil = FALSE]
                   ELSE [c1 EXCEPT !.oilTimer = c1.oilTimer - 1,
                                   !.drift_factor = DriftOil]
              ELSE c1
    IN  IF c2.slowdownTimer > 0
        THEN [c2 EXCEPT !.slowdownTimer = c2.slowdownTimer - 1]
        ELSE c2

\* LapThreshold with the guard dropped: every arrival at index 0 counts
LapThresholdAlways(cp, n) == TRUE

\* LapThreshold with the full track demanded and the comparison made strict
LapThresholdStrict(cp, n) == cp * 10 > n * 10

\* The lap test of checkWaypoints and followPath:
\* checkpointsReached >= waypoints.length * 0.8
LapThreshold(cp, n) == cp * 10 >= n * 8

\* CheckWaypoints without the modulo on the next index
CheckWaypointsNoWrap(car, n, reached) ==
    IF ~reached THEN car
    ELSE [car EXCEPT !.lastCheckpoint = car.lastCheckpoint + 1,
                     !.checkpointsReached = car.checkpointsReached + 1]

\* CheckWaypoints with the count kept over a lap: checkpointsReached is not
\* reset when the lap is counted
CheckWaypointsKeepsCount(car, n, reached) ==
    LET expectedNext == (car.lastCheckpoint + 1) % n
        cp == car.checkpointsReached + 1
    IN  IF ~reached THEN car
        ELSE IF expectedNext = 0 /\ LapThreshold(cp, n)
             THEN [car EXCEPT !.lastCheckpoint = expectedNext,
                              !.laps = car.laps + 1,
                              !.checkpointsReached = cp]
             ELSE [car EXCEPT !.lastCheckpoint = expectedNext,
                              !.checkpointsReached = cp]

\* PlayerCar.checkWaypoints; reached is dist < waypointReachDistance
CheckWaypoints(car, n, reached) ==
    LET expectedNext == (car.lastCheckpoint + 1) % n
        cp == car.checkpointsReached + 1
    IN  IF ~reached THEN car
        ELSE IF expectedNext = 0 /\ LapThreshold(cp, n)
             THEN [car EXCEPT !.lastCheckpoint = expectedNext,
                              !.laps = car.laps + 1,
                              !.checkpointsReached = 0]
             ELSE [car EXCEPT !.lastCheckpoint = expectedNext,
                              !.checkpointsReached = cp]

\* PlayerCar.update
PlayerUpdate(car, n, in) ==
    IF car.finished THEN car
    ELSE LET c1 == IF car.autoMode THEN HandleAutoPilot(car, n, in)
                   ELSE HandleInput(car, in)
             c2 == UpdateNitro(c1)
             c3 == Integrate(c2)
             c4 == HandleObstacles(c3, in)
         IN  CheckWaypoints(c4, n, in.reached)

-----------------------------------------------------------------------------
(* FollowerCar *)

\* new FollowerCar(...) as createAICars leaves it
NewFollowerCar ==
    [position |-> 0, velocity |-> 0,
     laps |-> 0, checkpointsReached |-> 0, lastCheckpoint |-> 0,
     currentWaypointIndex |-> 0, finished |-> FALSE]

\* FollowerCar.followPath, its writes; reached is distance < waypointReachDistance
FollowPath(car, n, reached) ==
    LET next == (car.currentWaypointIndex + 1) % n
        cp == car.checkpointsReached + 1
    IN  IF ~reached THEN car
        ELSE IF next = 0 /\ LapThreshold(cp, n)
             THEN [car EXCEPT !.currentWaypointIndex = next,
                              !.lastCheckpoint = next,
                              !.laps = car.laps + 1,
                              !.checkpointsReached = 0]
             ELSE [car EXCEPT !.currentWaypointIndex = next,
                              !.lastCheckpoint = next,
                              !.checkpointsReached = cp]

\* FollowerCar.reset(spawnPos, waypointIndex, track)
ResetFollower(waypointIndex) ==
    [NewFollowerCar EXCEPT !.currentWaypointIndex = waypointIndex,
                           !.lastCheckpoint = waypointIndex]

\* FollowerCar.applyBehaviors
ApplyBehaviors(car, n, in) ==
    IF car.finished THEN car ELSE FollowPath(car, n, in.reached)

\* Vehicule.update: velocity and position are written
VehiculeUpdate(car) ==
    [car EXCEPT !.velocity = 1 - car.velocity, !.position = 1 - car.position]

\* FollowerCar.update
FollowerUpdate(car) ==
    IF car.finished THEN car ELSE VehiculeUpdate(car)

-----------------------------------------------------------------------------
(* sketch.js *)

\* createAICars: numCars
NumCars(level) == Min(3 + level, 10)

\* createAICars(level), keeping at most cars opponents
CreateAICars(level, cars) ==
    [i \in 1..Min(NumCars(level), cars) |-> NewFollowerCar]

\* the progress updateRacePositions computes for a car
Progress(car, n) == car.laps * n + car.lastCheckpoint

\* Racers with the player pushed behind the opponents
RacersPlayerLast(p, ais, n) ==
    [i \in 1..Len(ais) |->
          [type |-> "ai", index |-> i - 1, progress |-> Progress(ais[i], n),
           laps |-> ais[i].laps]]
    \o <<[type |-> "player", index |-> 0, progress |-> Progress(p, n), laps |-> p.laps]>>

\* updateRacePositions: the racers array before the sort
Racers(p, ais, n) ==
    <<[type |-> "player", index |-> 0, progress |-> Progress(p, n), laps |-> p.laps]>>
    \o [i \in 1..Len(ais) |->
          [type |-> "ai", index |-> i - 1, progress |-> Progress(ais[i], n),
           laps |-> ais[i].laps]]

\* the compare function of racers.sort: negative keeps a before b
Compare(a, b) == b.progress - a.progress

RECURSIVE InsertRacerBeforeTies(_, _)
\* InsertRacer placing r before the elements it ties with
InsertRacerBeforeTies(r, sorted) ==
    IF sorted = <<>> THEN <<r>>
    ELSE IF sorted[Len(sorted)].progress - r.progress > 0 THEN Append(sorted, r)
         ELSE Append(InsertRacerBeforeTies(r, SubSeq(sorted, 1, Len(sorted) - 1)),
                     sorted[Len(sorted)])

RECURSIVE InsertRacer(_, _)
\* Array.prototype.sort is stable: r goes behind every element it does not precede
InsertRacer(r, sorted) ==
    IF sorted = <<>> THEN <<r>>
    ELSE IF Compare(r, sorted[Len(sorted)]) >= 0 THEN Append(sorted, r)
         ELSE Append(InsertRacer(r, SubSeq(sorted, 1, Len(sorted) - 1)),
                     sorted[Len(sorted)])

RECURSIVE SortRacers(_)
\* racers.sort((a, b) => b.progress - a.progress)
SortRacers(rs) ==
    IF rs = <<>> THEN <<>>
    ELSE InsertRacer(rs[Len(rs)], SortRacers(SubSeq(rs, 1, Len(rs) - 1)))

\* updateRacePositions: the player's rank in the sorted array
PlayerRank(sorted) ==
    CHOOSE i \in 1..Len(sorted) : sorted[i].type = "player"

\* CheckRaceFinished looking at the opponents before the player
CheckRaceFinishedAIFirst(p, ais, rf, w, gs, ls, level) ==
    LET same == [raceFinished |-> rf, winner |-> w, gameState |-> gs,
                 levelSelect |-> ls, playerCar |-> p]
    IN  IF (\E i \in 1..Len(ais) : ais[i].laps >= LAPS_TO_WIN) /\ ~rf
        THEN [same EXCEPT !.raceFinished = TRUE, !.winner = "ai",
                          !.gameState = "raceLost"]
        ELSE IF p.laps >= LAPS_TO_WIN /\ ~rf
             THEN [raceFinished |-> TRUE, winner |-> "player",
                   gameState |-> IF level >= MAX_LEVEL THEN "gameOver"
                                 ELSE "levelComplete",
                   levelSelect |-> UnlockLevel(ls, level + 1),
                   playerCar |-> [p EXCEPT !.finished = TRUE]]
             ELSE same

\* CheckRaceFinished that unlocks the next level when an opponent wins as well
CheckRaceFinishedUnlockOnLoss(p, ais, rf, w, gs, ls, level) ==
    IF p.laps >= LAPS_TO_WIN /\ ~rf
    THEN [raceFinished |-> TRUE, winner |-> "player",
          gameState |-> IF level >= MAX_LEVEL THEN "gameOver" ELSE "levelComplete",
          levelSelect |-> UnlockLevel(ls, level + 1),
          playerCar |-> [p EXCEPT !.finished = TRUE]]
    ELSE IF (\E i \in 1..Len(ais) : ais[i].laps >= LAPS_TO_WIN) /\ ~rf
         THEN [raceFinished |-> TRUE, winner |-> "ai", gameState |-> "raceLost",
               levelSelect |-> UnlockLevel(ls, level + 1), playerCar |-> p]
         ELSE [raceFinished |-> rf, winner |-> w, gameState |-> gs,
               levelSelect |-> ls, playerCar |-> p]

\* CheckRaceFinished that ends the race on the player's laps only
CheckRaceFinishedPlayerOnly(p, ais, rf, w, gs, ls, level) ==
    IF p.laps >= LAPS_TO_WIN /\ ~rf
    THEN [raceFinished |-> TRUE, winner |-> "player",
          gameState |-> IF level >= MAX_LEVEL THEN "gameOver" ELSE "levelComplete",
          levelSelect |-> UnlockLevel(ls, level + 1),
          playerCar |-> [p EXCEPT !.finished = TRUE]]
    ELSE [raceFinished |-> rf, winner |-> w, gameState |-> gs,
          levelSelect |-> ls, playerCar |-> p]

\* CheckRaceFinished without the gameOver screen: a win of the last level
\* shows levelComplete too
CheckRaceFinishedNoGameOver(p, ais, rf, w, gs, ls, level) ==
    LET same == [raceFinished |-> rf, winner |-> w, gameState |-> gs,
                 levelSelect |-> ls, playerCar |-> p]
    IN  IF p.laps >= LAPS_TO_WIN /\ ~rf
        THEN [raceFinished |-> TRUE, winner |-> "player",
              gameState |-> "levelComplete",
              levelSelect |-> UnlockLevel(ls, level + 1),
              playerCar |-> [p EXCEPT !.finished = TRUE]]
        ELSE IF (\E i \in 1..Len(ais) : ais[i].laps >= LAPS_TO_WIN) /\ ~rf
             THEN [same EXCEPT !.raceFinished = TRUE, !.winner = "ai",
                               !.gameState = "raceLost"]
             ELSE same

\* checkRaceFinished, on the cars as the frame's updates left them
CheckRaceFinished(p, ais, rf, w, gs, ls, level) ==
    LET same == [raceFinished |-> rf, winner |-> w, gameState |-> gs,
                 levelSelect |-> ls, playerCar |-> p]
    IN  IF p.laps >= LAPS_TO_WIN /\ ~rf
        THEN [raceFinished |-> TRUE, winner |-> "player",
              gameState |-> IF level >= MAX_LEVEL THEN "gameOver" ELSE "levelComplete",
              levelSelect |-> UnlockLevel(ls, level + 1),
              playerCar |-> [p EXCEPT !.finished = TRUE]]
        ELSE IF (\E i \in 1..Len(ais) : ais[i].laps >= LAPS_TO_WIN) /\ ~rf
             THEN [same EXCEPT !.raceFinished = TRUE, !.winner = "ai",
                               !.gameState = "raceLost"]
             ELSE same

-----------------------------------------------------------------------------
(* The frame and the event handlers *)

\* Track.generateCircuit: the number of waypoints pushed (numPoints in the code,
\* scale.n in a race of the model)
GenerateCircuit(level) == scale.n

\* InitLevel without the reset of the race result
InitLevelKeepsResult(level) ==
    /\ currentLevel' = level
    /\ track' = NewTrack(level, GenerateCircuit(level))
    /\ playerPosition' = 1
    /\ playerCar' = NewPlayerCar
    /\ aiCars' = CreateAICars(level, scale.cars)
    /\ gameState' = "playing"
    /\ UNCHANGED <<raceFinished, winner, racePositions, scale, outcome, keysDown>>

\* initLevel(level)
InitLevel(level) ==
    /\ currentLevel' = level
    /\ track' = NewTrack(level, GenerateCircuit(level))
    /\ raceFinished' = FALSE
    /\ winner' = "none"
    /\ playerPosition' = 1
    /\ playerCar' = NewPlayerCar
    /\ aiCars' = CreateAICars(level, scale.cars)
    /\ gameState' = "playing"
    /\ UNCHANGED <<racePositions, scale, outcome, keysDown>>

\* What a frame draws for the player: the keys held, the geometry it meets
PlayerInputs(nitroKeys, fasts, hits, reacheds) ==
    [nitroKey : nitroKeys, fast : fasts, hit : hits, reached : reacheds]

\* What a frame draws for an opponent
FollowerInputs(reacheds) == [reached : reacheds]

\* updateGame(), for the inputs pin of the player and ain[i] of opponent i
UpdateGameWith(pin, ain) ==
    LET n == track.n
        sorted == SortRacers(Racers(playerCar, aiCars, n))
        p1 == PlayerUpdate(playerCar, n, pin)
        a1 == [i \in 1..Len(aiCars) |->
                 FollowerUpdate(ApplyBehaviors(aiCars[i], n, ain[i]))]
        end == CheckRaceFinished(p1, a1, raceFinished, winner, gameState,
                                 levelSelect, currentLevel)
    IN  /\ racePositions' = sorted
        /\ playerPosition' = PlayerRank(sorted)
        /\ playerCar' = end.playerCar
        /\ aiCars' = a1
        /\ raceFinished' = end.raceFinished
        /\ winner' = end.winner
        /\ gameState' = end.gameState
        /\ levelSelect' = end.levelSelect
        /\ storage' = IF end.levelSelect # levelSelect
                      THEN SaveProgress(end.levelSelect) ELSE storage
        /\ UNCHANGED <<currentLevel, track, scale, outcome, keysDown>>

\* draw() in the state 'playing', with the keys of a race without nitro
UpdateGame ==
    /\ gameState = "playing"
    /\ \E pin \in PlayerInputs({FALSE}, {FALSE}, {"none"}, BOOLEAN),
          ain \in [1..Len(aiCars) -> FollowerInputs(BOOLEAN)] :
          UpdateGameWith(pin, ain)

\* keyPressed() in the state 'menu'
KeyMenu(key) ==
    /\ gameState = "menu"
    /\ gameState' = IF key = " " THEN "levelSelect" ELSE gameState
    /\ levelSelect' = IF key = "r" THEN ResetProgress(levelSelect) ELSE levelSelect
    /\ storage' = IF key = "r" THEN SaveProgress(ResetProgress(levelSelect)) ELSE storage
    /\ UNCHANGED <<currentLevel, raceVars, scale, outcome, keysDown>>

\* keyPressed() in the state 'levelSelect'
KeyLevelSelect(key) ==
    /\ gameState = "levelSelect"
    /\ IF key = " " /\ CanStartSelected(levelSelect)
       THEN InitLevel(levelSelect.selectedLevel) /\ UNCHANGED <<levelSelect, storage>>
       ELSE /\ gameState' = IF key = "ESCAPE" THEN "menu" ELSE gameState
            /\ UNCHANGED <<currentLevel, levelSelect, storage, raceVars, scale, outcome, keysDown>>

\* keyPressed() in the state 'playing', the autopilot line
AutoModeKey(car, key) ==
    IF key = "a" THEN [car EXCEPT !.autoMode = ~car.autoMode] ELSE car

\* keyPressed() in the state 'playing'
KeyPlaying(key) ==
    /\ gameState = "playing"
    /\ IF key = "ESCAPE" THEN InitLevel(currentLevel) /\ UNCHANGED <<levelSelect, storage>>
       ELSE /\ gameState' = IF key = "m" THEN "levelSelect" ELSE gameState
            /\ playerCar' = AutoModeKey(playerCar, key)
            /\ UNCHANGED <<currentLevel, levelSelect, storage, track, aiCars,
                           racePositions, raceFinished, playerPosition, winner, scale, outcome, keysDown>>

\* keyPressed() in the states 'levelComplete', 'raceLost' and 'gameOver'
KeyResult(key) ==
    /\ gameState \in {"levelComplete", "raceLost", "gameOver"}
    /\ IF key = " "
       THEN /\ InitLevel(CASE gameState = "levelComplete" -> currentLevel + 1
                             [] gameState = "raceLost" -> currentLevel
                             [] OTHER -> 1)
            /\ UNCHANGED <<levelSelect, storage>>
       ELSE /\ gameState' = IF key = "m" THEN "levelSelect" ELSE gameState
            /\ UNCHANGED <<currentLevel, levelSelect, storage, raceVars, scale, outcome, keysDown>>

\* keyPressed()
KeyPressed(key) ==
    \/ KeyMenu(key)
    \/ KeyLevelSelect(key)
    \/ KeyPlaying(key)
    \/ KeyResult(key)

\* mousePressed() in the state 'menu': the button under the mouse
MouseMenu(button) ==
    /\ gameState = "menu"
    /\ gameState' = IF button = "start" THEN "levelSelect" ELSE gameState
    /\ levelSelect' = IF button = "reset" THEN ResetProgress(levelSelect)
                      ELSE levelSelect
    /\ storage' = IF button = "reset" THEN SaveProgress(ResetProgress(levelSelect))
                  ELSE storage
    /\ UNCHANGED <<currentLevel, raceVars, scale, outcome, keysDown>>

\* mousePressed() in the state 'levelSelect': the card under the mouse, 0 for none
MouseLevelSelect(card) ==
    /\ gameState = "levelSelect"
    /\ LET click == HandleClick(levelSelect, card)
       IN  IF click.level > 0 /\ click.level <= click.ls.unlockedLevel
              /\ click.ls.selectedLevel = click.level
           THEN /\ InitLevel(click.level)
                /\ levelSelect' = click.ls
                /\ UNCHANGED storage
           ELSE /\ levelSelect' = click.ls
                /\ UNCHANGED <<gameState, currentLevel, storage, raceVars, scale, outcome, keysDown>>

\* draw() in every other state: the screen is drawn, nothing is written
DrawScreen ==
    /\ gameState # "playing"
    /\ UNCHANGED vars

\* The keys and mouse targets of Spec: no card, the first card and the last
\* one (SpecStart clicks every card)
Keys == {" ", "r", "ESCAPE", "m"}
Buttons == {"start", "reset"}
Cards == {0, 1, MAX_LEVEL}

\* setup(): a fresh LevelSelect over an empty localStorage; no race objects yet
Init ==
    /\ gameState = "menu"
    /\ currentLevel = 1
    /\ levelSelect = [unlockedLevel |-> 1, selectedLevel |-> 1]
    /\ storage = 0
    /\ track = NewTrack(0, 0)
    /\ playerCar = NewPlayerCar
    /\ aiCars = <<>>
    /\ racePositions = <<>>
    /\ raceFinished = FALSE
    /\ playerPosition = 1
    /\ winner = "none"
    /\ scale = [n |-> MenuTrackLen, cars |-> MenuCars]
    /\ outcome = NoCall
    /\ keysDown = {}

Next ==
    \/ UpdateGame
    \/ DrawScreen
    \/ \E key \in Keys : KeyPressed(key)
    \/ \E button \in Buttons : MouseMenu(button)
    \/ \E card \in Cards : MouseLevelSelect(card)

Spec == Init /\ [][Next]_vars

-----------------------------------------------------------------------------
(* SpecRace: one race, from initLevel(level) to the screen that ends it *)

RaceLevels == {1, MAX_LEVEL}

\* the state initLevel(level) leaves, level being unlocked
InitRace ==
    /\ \E level \in RaceLevels :
          /\ currentLevel = level
          /\ levelSelect = [unlockedLevel |-> level, selectedLevel |-> level]
          /\ storage = IF level = 1 THEN 0 ELSE level
          /\ track = NewTrack(level, TrackLen)
          /\ aiCars = CreateAICars(level, MaxCars)
    /\ gameState = "playing"
    /\ playerCar = NewPlayerCar
    /\ racePositions = <<>>
    /\ raceFinished = FALSE
    /\ playerPosition = 1
    /\ winner = "none"
    /\ scale = [n |-> TrackLen, cars |-> MaxCars]
    /\ outcome = NoCall
    /\ keysDown = {}

NextRace ==
    \/ UpdateGame
    \/ DrawScreen
    \/ KeyPlaying("ESCAPE")
    \/ KeyResult("m")

SpecRace == InitRace /\ [][NextRace]_vars

-----------------------------------------------------------------------------
(* SpecLap: checkWaypoints and followPath on a track of NumPoints waypoints,   *)
(* applied to one car that starts a lap count at any waypoint index.  The car  *)
(* under test is the player when aiCars is empty, aiCars[1] otherwise.         *)

InitLap ==
    /\ \E waypointIndex \in 0..(NumPoints - 1) :
          \/ /\ playerCar = [NewPlayerCar EXCEPT !.lastCheckpoint = waypointIndex]
             /\ aiCars = <<>>
          \/ /\ playerCar = NewPlayerCar
             /\ aiCars = <<ResetFollower(waypointIndex)>>
    /\ gameState = "playing"
    /\ currentLevel = 1
    /\ levelSelect = [unlockedLevel |-> 1, selectedLevel |-> 1]
    /\ storage = 0
    /\ track = NewTrack(1, NumPoints)
    /\ racePositions = <<>>
    /\ raceFinished = FALSE
    /\ playerPosition = 1
    /\ winner = "none"
    /\ scale = [n |-> NumPoints, cars |-> 1]
    /\ outcome = NoCall
    /\ keysDown = {}

\* playerCar.checkWaypoints()
LapPlayerStep ==
    /\ aiCars = <<>>
    /\ playerCar.laps < LAPS_TO_WIN
    /\ \E reached \in BOOLEAN :
          playerCar' = CheckWaypoints(playerCar, track.n, reached)
    /\ UNCHANGED <<gameState, currentLevel, levelSelect, storage, track, aiCars,
                   racePositions, raceFinished, playerPosition, winner, scale, outcome, keysDown>>

\* aiCars[0].followPath()
LapFollowerStep ==
    /\ aiCars # <<>>
    /\ aiCars[1].laps < LAPS_TO_WIN
    /\ \E reached \in BOOLEAN :
          aiCars' = <<FollowPath(aiCars[1], track.n, reached)>>
    /\ UNCHANGED <<gameState, currentLevel, levelSelect, storage, track, playerCar,
                   racePositions, raceFinished, playerPosition, winner, scale, outcome, keysDown>>

NextLap == LapPlayerStep \/ LapFollowerStep

SpecLap == InitLap /\ [][NextLap]_vars

\* what a step from car c to car d may do to the laps: they grow only by one,
\* only when the checkpoint index arrives at 0 with at least 4/5 of the n
\* checkpoints counted, and then the count restarts; arriving at 0 with fewer
\* counts the checkpoint and leaves the laps
LapRule(c, d, n) ==
    LET counted == c.checkpointsReached + 1
        arrives == d # c /\ d.lastCheckpoint = 0
    IN  /\ d.laps # c.laps =>
              /\ arrives
              /\ counted * 5 >= n * 4
              /\ d.laps = c.laps + 1
              /\ d.checkpointsReached = 0
        /\ (arrives /\ counted * 5 < n * 4) =>
              /\ d.laps = c.laps
              /\ d.checkpointsReached = counted
        /\ (arrives /\ counted * 5 >= n * 4) =>
              /\ d.laps = c.laps + 1
              /\ d.checkpointsReached = 0

\* C1: for the player (checkWaypoints) and an opponent (followPath), laps grows
\* in a step only if the checkpoint index advances to 0 with the count, that
\* checkpoint included, at least 0.8 * waypointCount; it then grows by one and
\* the count restarts at 0; with a smaller count laps is unchanged
C1_LapNeedsCoverage ==
    [][/\ LapRule(playerCar, playerCar', track.n)
       /\ (aiCars # <<>> /\ aiCars' # <<>>) =>
             LapRule(aiCars[1], aiCars'[1], track.n)]_vars

\* an opponent arrived at index 0 having counted 10 checkpoints: no lap
C1_Witness ==
    /\ aiCars # <<>>
    /\ track.n = NumPoints
    /\ aiCars[1].currentWaypointIndex = 0
    /\ aiCars[1].checkpointsReached = 10
    /\ aiCars[1].laps = 0

-----------------------------------------------------------------------------
(* Properties of a race (SpecRace) *)

\* a step that is a call of initLevel
StartsRace == \E level \in 1..MAX_LEVEL : InitLevel(level)

Competitors == {playerCar} \cup {aiCars[i] : i \in 1..Len(aiCars)}

SameMotion(c, d) ==
    c.position = d.position /\ c.velocity = d.velocity /\ c.laps = d.laps

\* C2: once a competitor has laps = LAPS_TO_WIN, no step other than a call of
\* initLevel changes its position, its velocity or its laps
C2_FinishedCarFrozen ==
    [][~StartsRace =>
         /\ playerCar.laps = LAPS_TO_WIN => SameMotion(playerCar, playerCar')
         /\ \A i \in 1..Len(aiCars) :
              aiCars[i].laps = LAPS_TO_WIN =>
                 /\ Len(aiCars') = Len(aiCars)
                 /\ SameMotion(aiCars[i], aiCars'[i])]_vars

\* an opponent finished, the race was lost, and the player left the lost screen
C2_Witness ==
    /\ winner = "ai"
    /\ gameState = "levelSelect"
    /\ \E i \in 1..Len(aiCars) : aiCars[i].laps = LAPS_TO_WIN
    /\ playerCar.laps < LAPS_TO_WIN

\* C3: a competitor has LAPS_TO_WIN laps exactly when the race is finished, and
\* then the state 'playing' is left and the winner is the player if the player
\* has LAPS_TO_WIN laps, an opponent otherwise
C3_RaceEndsWithWinner ==
    /\ raceFinished <=> \E c \in Competitors : c.laps >= LAPS_TO_WIN
    /\ raceFinished =>
         /\ gameState # "playing"
         /\ winner = IF playerCar.laps >= LAPS_TO_WIN THEN "player" ELSE "ai"
    /\ ~raceFinished => winner = "none"

\* the player and an opponent completed the last lap in the same frame
C3_Witness ==
    /\ winner = "player"
    /\ gameState \in {"levelComplete", "gameOver"}
    /\ playerCar.laps = LAPS_TO_WIN
    /\ \E i \in 1..Len(aiCars) : aiCars[i].laps = LAPS_TO_WIN

\* the checkpoint index stays, grows by one, or wraps to 0 with a lap counted
IndexAdvance(c, d, n) ==
    \/ d.lastCheckpoint = c.lastCheckpoint /\ d.laps = c.laps
    \/ d.lastCheckpoint = c.lastCheckpoint + 1 /\ d.laps = c.laps
    \/ /\ c.lastCheckpoint = n - 1
       /\ d.lastCheckpoint = 0
       /\ d.laps = c.laps + 1

\* C7: in every step of a race that is no call of initLevel, the progress
\* laps * waypointCount + lastCheckpoint of no competitor decreases: its index
\* stays, grows by one, or wraps from the last index to 0 with laps incremented
C7_ProgressMonotone ==
    [][~StartsRace =>
         /\ Progress(playerCar', track.n) >= Progress(playerCar, track.n)
         /\ IndexAdvance(playerCar, playerCar', track.n)
         /\ Len(aiCars') = Len(aiCars)
         /\ \A i \in 1..Len(aiCars) :
              /\ Progress(aiCars'[i], track.n) >= Progress(aiCars[i], track.n)
              /\ IndexAdvance(aiCars[i], aiCars'[i], track.n)]_vars

\* both the player and an opponent wrapped past the last waypoint
C7_Witness ==
    /\ gameState = "playing"
    /\ playerCar.laps = 1 /\ playerCar.lastCheckpoint = 0
    /\ \E i \in 1..Len(aiCars) : aiCars[i].laps = 1 /\ aiCars[i].lastCheckpoint = 1

IndicesInRange ==
    /\ playerCar.lastCheckpoint \in 0..(track.n - 1)
    /\ \A i \in 1..Len(aiCars) :
         /\ aiCars[i].currentWaypointIndex \in 0..(track.n - 1)
         /\ aiCars[i].lastCheckpoint \in 0..(track.n - 1)

\* C8: the waypoint indices of all cars stay in [0, waypointCount), and an index
\* that leaves waypointCount - 1 becomes 0
C8_IndexInRange ==
    /\ IndicesInRange
    /\ [][/\ IndicesInRange'
          /\ (playerCar.lastCheckpoint = track.n - 1
              /\ playerCar'.lastCheckpoint # playerCar.lastCheckpoint)
                => playerCar'.lastCheckpoint = 0
          /\ \A i \in 1..Len(aiCars) :
               (/\ aiCars[i].currentWaypointIndex = track.n - 1
                /\ Len(aiCars') = Len(aiCars)
                /\ aiCars'[i].currentWaypointIndex # aiCars[i].currentWaypointIndex)
                 => /\ aiCars'[i].currentWaypointIndex = 0
                    /\ aiCars'[i].lastCheckpoint = 0]_vars

\* the player stands at the last index while an opponent has wrapped to 0
C8_Witness ==
    /\ gameState = "playing"
    /\ playerCar.lastCheckpoint = track.n - 1
    /\ \E i \in 1..Len(aiCars) :
         aiCars[i].currentWaypointIndex = 0 /\ aiCars[i].laps = 1

-----------------------------------------------------------------------------
(* SpecNitro: the nitro gauge of the player in a race on level 1, driven by    *)
(* hand (SHIFT held or not in each frame) or by the autopilot (key 'a'); no    *)
(* car reaches a waypoint.                                                     *)

InitNitro ==
    /\ gameState = "playing"
    /\ currentLevel = 1
    /\ levelSelect = [unlockedLevel |-> 1, selectedLevel |-> 1]
    /\ storage = 0
    /\ track = NewTrack(1, TrackLen)
    /\ playerCar = NewPlayerCar
    /\ aiCars = CreateAICars(1, 1)
    /\ racePositions = <<>>
    /\ raceFinished = FALSE
    /\ playerPosition = 1
    /\ winner = "none"
    /\ scale = [n |-> TrackLen, cars |-> 1]
    /\ outcome = NoCall
    /\ keysDown = {}

\* the inputs of a frame in which no opponent reaches its waypoint
NoneReached == [i \in 1..Len(aiCars) |-> [reached |-> FALSE]]

\* draw() in the state 'playing', with SHIFT held or not
NitroFrame ==
    /\ gameState = "playing"
    /\ \E pin \in PlayerInputs(BOOLEAN, BOOLEAN, {"none"}, {FALSE}) :
          UpdateGameWith(pin, NoneReached)

NextNitro == NitroFrame \/ KeyPlaying("a")

SpecNitro == InitNitro /\ [][NextNitro]_vars

\* a frame of the hand-driven car with SHIFT held
RequestsNitro ==
    /\ gameState = "playing"
    /\ ~playerCar.autoMode
    /\ \E pin \in PlayerInputs({TRUE}, BOOLEAN, {"none"}, {FALSE}) :
          UpdateGameWith(pin, NoneReached)

\* C5: nitroFuel stays within 0..nitroMaxFuel whatever the sequence of manual
\* and autopilot frames, nitro requested or not; and a manual frame that
\* requests nitro with nitroFuel = 0 leaves nitroActive false
C5_NitroFuelInRange ==
    /\ playerCar.nitroFuel \in 0..NitroMaxFuel
    /\ [][/\ playerCar'.nitroFuel \in 0..NitroMaxFuel
          /\ (playerCar.nitroFuel = 0 /\ RequestsNitro) =>
                ~playerCar'.nitroActive]_vars

\* the gauge ran empty and a hand-driven frame recharged it by one step
C5_Witness ==
    /\ playerCar.nitroFuel = NitroRechargeRate
    /\ ~playerCar.nitroActive
    /\ ~playerCar.autoMode

\* C6: after every update of the player, nitroActive implies nitroFuel > 0
C6_ActiveNeedsFuel ==
    playerCar.nitroActive => playerCar.nitroFuel > 0

-----------------------------------------------------------------------------
(* SpecRank: updateRacePositions applied to a player and RankCars opponents,   *)
(* each anywhere in a race that is still on (fewer than LAPS_TO_WIN laps).     *)

InitRank ==
    /\ \E pl \in 0..(LAPS_TO_WIN - 1), pc \in 0..(TrackLen - 1) :
          playerCar = [NewPlayerCar EXCEPT !.laps = pl, !.lastCheckpoint = pc]
    /\ \E al \in [1..RankCars -> 0..(LAPS_TO_WIN - 1)],
          ac \in [1..RankCars -> 0..(TrackLen - 1)] :
          aiCars = [i \in 1..RankCars |->
                      [NewFollowerCar EXCEPT !.laps = al[i],
                                             !.currentWaypointIndex = ac[i],
                                             !.lastCheckpoint = ac[i]]]
    /\ gameState = "playing"
    /\ currentLevel = 1
    /\ levelSelect = [unlockedLevel |-> 1, selectedLevel |-> 1]
    /\ storage = 0
    /\ track = NewTrack(1, TrackLen)
    /\ racePositions = <<>>
    /\ raceFinished = FALSE
    /\ playerPosition = 1
    /\ winner = "none"
    /\ scale = [n |-> TrackLen, cars |-> RankCars]
    /\ outcome = NoCall
    /\ keysDown = {}

\* updateRacePositions()
UpdateRacePositions ==
    LET sorted == SortRacers(Racers(playerCar, aiCars, track.n))
    IN  /\ racePositions' = sorted
        /\ playerPosition' = PlayerRank(sorted)
        /\ UNCHANGED <<gameState, currentLevel, levelSelect, storage, track,
                       playerCar, aiCars, raceFinished, winner, scale, outcome, keysDown>>

SpecRank == InitRank /\ [][UpdateRacePositions]_vars

\* the place of a racer in the array updateRacePositions builds
InputOrder(r) == IF r.type = "player" THEN 0 ELSE r.index + 1

\* rs ranks the cars p and ais: every competitor once with its progress,
\* progress non-increasing, ties in input order; pos is the player's rank
Ranked(rs, pos, p, ais, n) ==
    /\ Len(rs) = 1 + Len(ais)
    /\ \E k \in 1..Len(rs) :
         rs[k].type = "player" /\ rs[k].progress = Progress(p, n)
    /\ \A i \in 1..Len(ais) : \E k \in 1..Len(rs) :
         /\ rs[k].type = "ai" /\ rs[k].index = i - 1
         /\ rs[k].progress = Progress(ais[i], n)
    /\ \A k \in 1..Len(rs), l \in 1..Len(rs) :
         k < l => \/ rs[k].progress > rs[l].progress
                  \/ /\ rs[k].progress = rs[l].progress
                     /\ InputOrder(rs[k]) < InputOrder(rs[l])
    /\ pos = 1 + Cardinality({i \in 1..Len(ais) : Progress(ais[i], n) > Progress(p, n)})

\* C9: after updateRacePositions, racePositions ranks the player and all the
\* opponents: progress non-increasing, ties in input order (the player, then the
\* opponents by list index), and playerPosition one more than the number of
\* opponents strictly ahead of the player
C9_RankingSorted ==
    racePositions # <<>> =>
        Ranked(racePositions, playerPosition, playerCar, aiCars, track.n)

\* a ranking in which the second opponent leads and the player ties the first
C9_Witness ==
    /\ Len(racePositions) = 1 + RankCars
    /\ racePositions[1].type = "ai" /\ racePositions[1].index = 1
    /\ racePositions[2].type = "player"
    /\ racePositions[3].progress = racePositions[2].progress
    /\ racePositions[2].progress > 0
    /\ playerPosition = 2

-----------------------------------------------------------------------------
(* SpecTrack: the track queries, and the car steps that make them, called on  *)
(* a track whose waypoint list and obstacle list may be empty.                *)

MaxObstacles == 1  \* obstacles of a track drawn in SpecTrack

\* the geometry a call meets on track trk
TrackInputs(trk) ==
    [waypoints : [1..trk.n -> [dist : {0, 10000}, toCenter : {1}]],
     obstacles : [1..trk.obstacles ->
                    {[type |-> t, radius |-> Radius(t), dist |-> d] :
                        t \in {"cone", "barrier", "oil"}, d \in {0, 10000}}],
     ahead : BOOLEAN,
     aheadDist : {3000}, reached : BOOLEAN]

\* the queries and steps that read the waypoint list, and the obstacle list
WaypointCalls == {"getTrackBoundaryForce", "handleBoundary", "avoidBoundary",
                  "handleAutoPilot", "checkWaypoints", "followPath"}
ObstacleCalls == {"getObstacleAvoidanceForce", "checkObstacleCollision",
                  "handleObstacles"}

\* how a query that returns a force ends: neutral is the zero force
ForceOutcome(call, r) ==
    [call |-> call, error |-> r.error,
     neutral |-> r.error = "none" /\ r.value = 0]

\* how a query or a step reading the obstacles ends: neutral is no hit
HitOutcome(call, r) ==
    [call |-> call, error |-> r.error,
     neutral |-> r.error = "none" /\ ~r.value.hit]

\* PlayerCar.checkWaypoints as a call: (lastCheckpoint + 1) % 0 is NaN,
\* waypoints[NaN] is undefined and p5.Vector.dist throws
CheckWaypointsCall(car, trk, in) ==
    IF trk.n = 0 THEN Thrown("TypeError")
    ELSE Returned(CheckWaypoints(car, trk.n, in.reached))

\* FollowerCar.followPath as a call: the target waypoints[currentWaypointIndex]
\* is undefined on an empty list and p5.Vector.dist throws
FollowPathCall(car, trk, in) ==
    IF ~HasWaypoint(trk, car.currentWaypointIndex) THEN Thrown("TypeError")
    ELSE Returned(FollowPath(car, trk.n, in.reached))

\* how call ends on track trk for the player car p and the opponent ai
CallOutcome(call, trk, p, ai, in) ==
    CASE call = "getTrackBoundaryForce" ->
           ForceOutcome(call, GetTrackBoundaryForce(trk, in))
      [] call = "handleBoundary" ->
           ForceOutcome(call, GetTrackBoundaryForce(trk, in))
      [] call = "avoidBoundary" ->
           ForceOutcome(call, GetTrackBoundaryForce(trk, in))
      [] call = "getObstacleAvoidanceForce" ->
           ForceOutcome(call, GetObstacleAvoidanceForce(trk, in))
      [] call = "checkObstacleCollision" ->
           HitOutcome(call, CheckObstacleCollision(trk, in))
      [] call = "handleObstacles" ->
           HitOutcome(call, CheckObstacleCollision(trk, in))
      [] call = "handleAutoPilot" ->
           [call |-> call, error |-> "none",
            neutral |-> HandleAutoPilot(p, trk.n, [fast |-> TRUE]) = p]
      [] call = "checkWaypoints" ->
           LET r == CheckWaypointsCall(p, trk, in)
           IN  [call |-> call, error |-> r.error,
                neutral |-> r.error = "none" /\ r.value = p]
      [] call = "followPath" ->
           LET r == FollowPathCall(ai, trk, in)
           IN  [call |-> call, error |-> r.error,
                neutral |-> r.error = "none" /\ r.value = ai]

InitTrack ==
    /\ \E level \in RaceLevels, n \in 0..TrackLen, k \in 0..MaxObstacles :
          /\ currentLevel = level
          /\ track = [NewTrack(level, n) EXCEPT !.obstacles = k]
    /\ gameState = "playing"
    /\ levelSelect = [unlockedLevel |-> MAX_LEVEL, selectedLevel |-> 1]
    /\ storage = MAX_LEVEL
    /\ playerCar = NewPlayerCar
    /\ aiCars = <<NewFollowerCar>>
    /\ racePositions = <<>>
    /\ raceFinished = FALSE
    /\ playerPosition = 1
    /\ winner = "none"
    /\ scale = [n |-> TrackLen, cars |-> 1]
    /\ outcome = NoCall
    /\ keysDown = {}

\* one of the calls, made on the track
TrackCall ==
    /\ \E call \in WaypointCalls \cup ObstacleCalls, in \in TrackInputs(track) :
          outcome' = CallOutcome(call, track, playerCar, aiCars[1], in)
    /\ UNCHANGED <<gameState, currentLevel, levelSelect, storage, track, playerCar,
                   aiCars, racePositions, raceFinished, playerPosition, winner,
                   scale, keysDown>>

SpecTrack == InitTrack /\ [][TrackCall]_vars

\* C10: a call that reads the waypoint list ends without an error and neutral
\* (zero force, car unchanged) when that list is empty, and a call that reads
\* the obstacle list ends without an error and neutral (zero force, no hit)
\* when that list is empty
C10_EmptyTrackNeutral ==
    /\ (outcome.call \in WaypointCalls /\ track.n = 0) =>
          (outcome.error = "none" /\ outcome.neutral)
    /\ (outcome.call \in ObstacleCalls /\ track.obstacles = 0) =>
          (outcome.error = "none" /\ outcome.neutral)

-----------------------------------------------------------------------------
(* SpecSpeed: the velocity of the player on a line through the next           *)
(* checkpoint, which is also the nearest waypoint.  The car stands off the    *)
(* track on that line, facing away from the waypoint; position is its         *)
(* coordinate on the line (the waypoint at 0) and velocity its speed along    *)
(* the line, both in hundredths, and angle is 1 facing away from the waypoint *)
(* and -1 facing it.  The steering keys are not held, so the car stays on the *)
(* line until it reaches the checkpoint.                                      *)

OffTrackSteps == 4  \* the car starts up to OffTrackSteps * 5 pixels beyond reach

\* p5.Vector.limit on the line
Limit(v, max) == IF v > max THEN max ELSE IF v < -max THEN -max ELSE v

\* what the track queries see of a car on the line
OnLine(car, trk) ==
    LET target == (car.lastCheckpoint + 1) % trk.n
        toCenter == IF car.position > 0 THEN -1 ELSE 1
    IN  [dist |-> Abs(car.position),
         toCenter |-> toCenter,
         waypoints |-> [i \in 1..trk.n |->
                          [dist |-> IF i = target + 1 THEN Abs(car.position)
                                    ELSE Abs(car.position) + WaypointReachDistance,
                           toCenter |-> toCenter]]]

\* PlayerCar.handleInput, the thrust and brake lines
Thrust(car, in) ==
    [car EXCEPT !.velocity = @ + (IF in.up THEN car.angle * AccelerationPower ELSE 0)
                               - (IF in.down THEN car.angle * BrakePower ELSE 0)]

\* PlayerCar.handleAutoPilot up to the boundary avoidance: the steering towards
\* the next waypoint, the angle, the boundary force times 1.5 (the track of a
\* race of this scale has no obstacle to avoid)
SteerToWaypoint(car, trk) ==
    LET geo == OnLine(car, trk)
        speed == IF geo.dist < 10000 THEN Map(geo.dist, 0, 10000, 200, Maxspeed)
                 ELSE Maxspeed
        steer == Limit(geo.toCenter * speed - car.velocity, Maxforce)
        v1 == car.velocity + steer
        angle == IF Abs(v1) > 50 THEN (IF v1 > 0 THEN 1 ELSE -1) ELSE car.angle
        boundaryForce == GetTrackBoundaryForce(trk, geo).value
    IN  [car EXCEPT !.velocity = v1 + Trunc(boundaryForce * 150, 100),
                    !.angle = angle]

\* PlayerCar.updateNitro, the boost line
Boost(car) ==
    IF car.nitroActive /\ car.nitroFuel > 0
    THEN [car EXCEPT !.velocity = @ + car.angle * NitroBoostPower]
    ELSE car

\* PlayerCar.update, friction to position.add (the velocity lies along the
\* facing direction, so the drift lerp leaves it)
Move(car) ==
    LET currentMaxSpeed == IF car.nitroActive THEN NitroMaxspeed ELSE Maxspeed
        v == Limit(Trunc(car.velocity * Friction, 100), currentMaxSpeed)
    IN  [car EXCEPT !.velocity = v, !.position = @ + v]

\* PlayerCar.handleBoundary
HandleBoundary(car, trk) ==
    LET boundaryForce == GetTrackBoundaryForce(trk, OnLine(car, trk)).value
    IN  IF Abs(boundaryForce) > 0
        THEN [car EXCEPT !.velocity = Trunc(@ * 85, 100) + 2 * boundaryForce]
        ELSE car

\* PlayerCar.update of a car on the line
PlayerUpdateOnLine(car, trk, in) ==
    IF car.finished THEN car
    ELSE LET c0 == IF car.autoMode THEN SteerToWaypoint(car, trk)
                   ELSE Thrust(car, in)
             c1 == IF car.autoMode
                   THEN HandleAutoPilot(c0, trk.n, [fast |-> Abs(c0.velocity) > 400])
                   ELSE HandleInput(c0, in)
             c2 == UpdateNitro(Boost(c1))
             c3 == HandleBoundary(Move(c2), trk)
             c4 == HandleObstacles(c3, [hit |-> "none"])
         IN  CheckWaypoints(c4, trk.n, Abs(c4.position) < WaypointReachDistance)

InitSpeed ==
    /\ \E k \in 0..OffTrackSteps, fuel \in {0, AutoNitroReserve, NitroMaxFuel} :
          playerCar = [NewPlayerCar EXCEPT
                          !.position = WaypointReachDistance + 500 * k,
                          !.nitroFuel = fuel]
    /\ gameState = "playing"
    /\ currentLevel = 1
    /\ levelSelect = [unlockedLevel |-> 1, selectedLevel |-> 1]
    /\ storage = 0
    /\ track = NewTrack(1, TrackLen)
    /\ aiCars = CreateAICars(1, 1)
    /\ racePositions = <<>>
    /\ raceFinished = FALSE
    /\ playerPosition = 1
    /\ winner = "none"
    /\ scale = [n |-> TrackLen, cars |-> 1]
    /\ outcome = NoCall
    /\ keysDown = {}

\* playerCar.update() while the next checkpoint is the waypoint on the line
SpeedFrame ==
    /\ gameState = "playing"
    /\ playerCar.lastCheckpoint = 0
    /\ \E in \in [up : BOOLEAN, down : {FALSE}, nitroKey : BOOLEAN] :
          playerCar' = PlayerUpdateOnLine(playerCar, track, in)
    /\ UNCHANGED <<gameState, currentLevel, levelSelect, storage, track, aiCars,
                   racePositions, raceFinished, playerPosition, winner, scale,
                   outcome, keysDown>>

NextSpeed == SpeedFrame \/ KeyPlaying("a")

SpecSpeed == InitSpeed /\ [][NextSpeed]_vars

\* C4: after every update the speed of the player is at most nitroMaxspeed
\* while nitroActive is true and at most maxspeed otherwise
C4_SpeedWithinCap ==
    Abs(playerCar.velocity) <=
        IF playerCar.nitroActive THEN NitroMaxspeed ELSE Maxspeed

-----------------------------------------------------------------------------
(* SpecBoundary: getTrackBoundaryForce called for positions around the edge   *)
(* of the track of every level.  The position is drawn by Init as the        *)
(* distance to and the side of every waypoint.                               *)

BoundarySteps == 90  \* distances up to BoundarySteps pixels are drawn

\* waypoint i lies base or base + 1 pixels away, on either side
BoundaryInputs(trk) ==
    {[waypoints |-> [i \in 1..trk.n |->
                       [dist |-> 100 * (base + off[i]), toCenter |-> dir[i]]]] :
        base \in 0..BoundarySteps, off \in [1..trk.n -> {0, 1}],
        dir \in [1..trk.n -> {1, -1}]}

InitBoundary ==
    /\ \E level \in 1..MAX_LEVEL :
          /\ currentLevel = level
          /\ track = NewTrack(level, TrackLen)
    /\ gameState = "playing"
    /\ levelSelect = [unlockedLevel |-> MAX_LEVEL, selectedLevel |-> 1]
    /\ storage = MAX_LEVEL
    /\ playerCar = NewPlayerCar
    /\ aiCars = <<NewFollowerCar>>
    /\ racePositions = <<>>
    /\ raceFinished = FALSE
    /\ playerPosition = 1
    /\ winner = "none"
    /\ scale = [n |-> TrackLen, cars |-> 1]
    /\ \E in \in BoundaryInputs(track) :
          outcome = [call |-> "none", error |-> "none", neutral |-> TRUE,
                     value |-> 0, waypoints |-> in.waypoints]
    /\ keysDown = {}

\* track.getTrackBoundaryForce(position, velocity) for the position drawn, the
\* call kept with its value
BoundaryCall ==
    /\ LET r == GetTrackBoundaryForce(track, [waypoints |-> outcome.waypoints])
       IN  outcome' = [outcome EXCEPT !.call = "getTrackBoundaryForce",
                                      !.error = r.error,
                                      !.neutral = r.error = "none" /\ r.value = 0,
                                      !.value = r.value]
    /\ UNCHANGED <<gameState, currentLevel, levelSelect, storage, track, playerCar,
                   aiCars, racePositions, raceFinished, playerPosition, winner,
                   scale, keysDown>>

SpecBoundary == InitBoundary /\ [][BoundaryCall]_vars

\* the nearest waypoint of the position of the last call, the lowest index
\* among the nearest, as an index of outcome.waypoints
Nearest ==
    CHOOSE i \in 1..track.n :
        /\ \A j \in 1..track.n : outcome.waypoints[i].dist <= outcome.waypoints[j].dist
        /\ \A j \in 1..(i - 1) : outcome.waypoints[i].dist < outcome.waypoints[j].dist

\* the distance past trackWidth/2 - 15 of the position of the last call, in
\* hundredths
Overshoot == outcome.waypoints[Nearest].dist - ((track.trackWidth * 100) \div 2 - 1500)

\* C11: getTrackBoundaryForce returns the zero vector when the distance d to
\* the nearest waypoint (the lowest index among the nearest) is at most
\* trackWidth/2 - 15, and a nonzero vector pointing to that waypoint when d
\* exceeds it
C11_BoundaryForceZeroInside ==
    outcome.call = "getTrackBoundaryForce" =>
        /\ outcome.error = "none"
        /\ Overshoot <= 0 => outcome.value = 0
        /\ Overshoot > 0 => /\ outcome.value # 0
                            /\ (outcome.value > 0) = (outcome.waypoints[Nearest].toCenter > 0)

\* a position past the edge with two nearest waypoints on opposite sides
C11_Witness ==
    /\ outcome.call = "getTrackBoundaryForce"
    /\ Overshoot > 0
    /\ outcome.waypoints[1].dist = outcome.waypoints[2].dist
    /\ outcome.waypoints[1].toCenter # outcome.waypoints[2].toCenter
    /\ outcome.value # 0

\* C12 as stated: past the margin the magnitude of the boundary force is
\* proportional to the overshoot, 0 at the margin and 1.0 at 25 pixels past it
C12_ForceProportional ==
    (outcome.call = "getTrackBoundaryForce" /\ Overshoot > 0) =>
        Abs(outcome.value) * 25 = Overshoot

\* C12: past the margin the magnitude of the boundary force is
\* 0.3 + 0.7 * overshoot / 25: it starts from 0.3 at the margin and rises
\* linearly to 1.0 at 25 pixels past it (in hundredths, rounded down)
C12_ForceAffine ==
    (outcome.call = "getTrackBoundaryForce" /\ Overshoot > 0) =>
        /\ 2500 * Abs(outcome.value) <= 30 * 2500 + 70 * Overshoot
        /\ 2500 * Abs(outcome.value) > 30 * 2500 + 70 * Overshoot - 2500

\* the position 25 pixels past the margin gets the force 1.0
C12_Witness ==
    /\ outcome.call = "getTrackBoundaryForce"
    /\ Overshoot = 2500
    /\ Abs(outcome.value) = 100

-----------------------------------------------------------------------------
(* Progress: the unlocked level and the stored item, under Spec *)

\* this step is LevelSelect.resetProgress: the R key or the reset button of
\* the menu
ResetsProgress ==
    /\ gameState = "menu"
    /\ gameState' = "menu"
    /\ levelSelect'.unlockedLevel = 1
    /\ storage' = 1

\* C13 as stated: over any sequence of user actions unlockedLevel and the
\* stored value never decrease
C13_NeverDecreases ==
    [][/\ levelSelect'.unlockedLevel >= levelSelect.unlockedLevel
       /\ storage' >= storage]_vars

\* C13: unlockedLevel and the stored value never decrease except by
\* resetProgress (the R key and the reset button of the menu), which sets both
\* to 1; unlockLevel(N) leaves unlockedLevel at max(previous value, N)
C13_RatchetUntilReset ==
    [][/\ ResetsProgress \/ (/\ levelSelect'.unlockedLevel >= levelSelect.unlockedLevel
                              /\ storage' >= storage)
       /\ \A N \in 1..(MAX_LEVEL + 1) :
             UnlockLevel(levelSelect, N).unlockedLevel = Max(levelSelect.unlockedLevel, N)
       /\ levelSelect'.unlockedLevel > levelSelect.unlockedLevel =>
             /\ levelSelect'.unlockedLevel = Max(levelSelect.unlockedLevel, currentLevel + 1)
             /\ storage' = levelSelect'.unlockedLevel]_vars

\* the menu after a reset of a progress that had reached level 2
C13_Witness ==
    /\ gameState = "menu"
    /\ levelSelect.unlockedLevel = 1
    /\ storage = 1
    /\ currentLevel = 2

\* this step is a frame in which checkRaceFinished declares the player the
\* winner
PlayerWins ==
    /\ gameState = "playing"
    /\ winner = "none"
    /\ winner' = "player"
    /\ playerCar'.laps >= LAPS_TO_WIN

\* C14: unlockedLevel increases only in a frame where checkRaceFinished
\* declares the winner 'player' with playerCar.laps >= 2, and then becomes
\* max(old, currentLevel + 1); a frame an opponent wins, a restart and a return
\* to the level select leave it unchanged
C14_UnlockOnlyByWinning ==
    [][/\ levelSelect'.unlockedLevel > levelSelect.unlockedLevel => PlayerWins
       /\ PlayerWins =>
             levelSelect'.unlockedLevel = Max(levelSelect.unlockedLevel, currentLevel + 1)
       /\ (gameState # "menu" /\ ~PlayerWins) =>
             levelSelect'.unlockedLevel = levelSelect.unlockedLevel]_vars

\* the player has won a level whose next level was locked
C14_Witness ==
    /\ gameState = "levelComplete"
    /\ winner = "player"
    /\ playerCar.laps >= LAPS_TO_WIN
    /\ levelSelect.unlockedLevel = currentLevel + 1
    /\ storage = currentLevel + 1

-----------------------------------------------------------------------------
(* SpecSteer: the heading of the player under the steering keys.  angle is in *)
(* thousandths of a radian and velocity is the speed velocity.mag() in        *)
(* hundredths; the speed a frame leaves and the heading the autopilot's       *)
(* steering gives the velocity are drawn in each frame.  No thrust, brake or  *)
(* nitro key is held.                                                         *)

MaxTurn == 130  \* frames are taken while the heading is within MaxTurn of 0

SteerKeys == {"a", "LEFT"}
Speeds == {50, 51, 150, 300}

\* PlayerCar.handleInput, the steering lines; keys are the keys held
Steer(car, keys) ==
    LET speed == car.velocity
        turn == (TurnSpeed * Min(speed, 300)) \div 300
        left == "LEFT" \in keys \/ "a" \in keys
        right == "RIGHT" \in keys \/ "d" \in keys
    IN  IF speed > 50
        THEN [car EXCEPT !.angle = @ - (IF left THEN turn ELSE 0)
                                     + (IF right THEN turn ELSE 0)]
        ELSE car

\* PlayerCar.handleAutoPilot, the angle line: in.heading is velocity.heading()
\* and in.steered velocity.mag() after the steering force is added
AutoPilotAngle(car, n, in) ==
    IF n = 0 THEN car
    ELSE IF in.steered > 50 THEN [car EXCEPT !.angle = in.heading] ELSE car

\* PlayerCar.update with the keys held; in.speed is the speed the frame leaves
PlayerUpdateSteer(car, n, keys, in) ==
    IF car.finished THEN car
    ELSE LET c1 == IF car.autoMode
                   THEN AutoPilotAngle(HandleAutoPilot(car, n, [fast |-> FALSE]), n, in)
                   ELSE Steer(HandleInput(car, [nitroKey |-> "SHIFT" \in keys]), keys)
             c2 == UpdateNitro(c1)
             c3 == [c2 EXCEPT !.velocity = in.speed, !.position = 1 - c2.position]
             c4 == HandleObstacles(c3, [hit |-> "none"])
         IN  CheckWaypoints(c4, n, FALSE)

InitSteer ==
    /\ \E speed \in Speeds :
          playerCar = [NewPlayerCar EXCEPT !.velocity = speed, !.angle = 0]
    /\ gameState = "playing"
    /\ currentLevel = 1
    /\ levelSelect = [unlockedLevel |-> 1, selectedLevel |-> 1]
    /\ storage = 0
    /\ track = NewTrack(1, TrackLen)
    /\ aiCars = CreateAICars(1, 1)
    /\ racePositions = <<>>
    /\ raceFinished = FALSE
    /\ playerPosition = 1
    /\ winner = "none"
    /\ scale = [n |-> TrackLen, cars |-> 1]
    /\ outcome = NoCall
    /\ keysDown = {}

\* the key goes down while playing: p5 records it as held and calls
\* keyPressed() once
KeyDown(key) ==
    /\ gameState = "playing"
    /\ key \notin keysDown
    /\ keysDown' = keysDown \cup {key}
    /\ playerCar' = AutoModeKey(playerCar, key)
    /\ UNCHANGED <<gameState, currentLevel, levelSelect, storage, track, aiCars,
                   racePositions, raceFinished, playerPosition, winner, scale,
                   outcome>>

\* the key is released
KeyUp(key) ==
    /\ key \in keysDown
    /\ keysDown' = keysDown \ {key}
    /\ UNCHANGED <<gameState, currentLevel, levelSelect, storage, track, playerCar,
                   aiCars, racePositions, raceFinished, playerPosition, winner,
                   scale, outcome>>

\* playerCar.update() of a frame
SteerFrame ==
    /\ gameState = "playing"
    /\ Abs(playerCar.angle) < MaxTurn
    /\ \E in \in [speed : Speeds, steered : Speeds,
                   heading : {playerCar.angle + k * TurnSpeed : k \in {-1, 0, 1}}] :
          playerCar' = PlayerUpdateSteer(playerCar, track.n, keysDown, in)
    /\ UNCHANGED <<gameState, currentLevel, levelSelect, storage, track, aiCars,
                   racePositions, raceFinished, playerPosition, winner, scale,
                   outcome, keysDown>>

NextSteer ==
    \/ SteerFrame
    \/ \E key \in SteerKeys : KeyDown(key)
    \/ \E key \in SteerKeys : KeyUp(key)

SpecSteer == InitSteer /\ [][NextSteer]_vars

\* the angle a frame takes from the heading at its speed
TurnStep == (TurnSpeed * Min(playerCar.velocity, 300)) \div 300

\* this step is an update of the player moving faster than 0.5
FastUpdate ==
    /\ playerCar'.position # playerCar.position
    /\ playerCar.velocity > 50

\* C15: in every update made at a speed above 0.5 while the A key is held, the
\* heading angle decreases by turn_speed * min(speed/3, 1), as it does in
\* manual mode while the left arrow is held
C15_KeyATurnsLeft ==
    [][/\ (FastUpdate /\ "LEFT" \in keysDown /\ ~playerCar.autoMode) =>
             playerCar'.angle = playerCar.angle - TurnStep
       /\ (FastUpdate /\ "a" \in keysDown) =>
             playerCar'.angle = playerCar.angle - TurnStep]_vars

-----------------------------------------------------------------------------
(* SpecCollision: handleObstacles of the player on a track whose obstacles    *)
(* near the car are drawn by Init, in the order generateObstacles pushes      *)
(* them: the cones, then the barriers, then the oil slicks.                   *)

MaxPerType == 1  \* obstacles of each type near the car in SpecCollision

\* cones cones, then barriers barriers, then oils oil slicks
TypesInOrder(cones, barriers, oils) ==
    [i \in 1..(cones + barriers + oils) |->
        IF i <= cones THEN "cone"
        ELSE IF i <= cones + barriers THEN "barrier" ELSE "oil"]

\* the distances drawn: inside every radius, inside and on the edge of a cone,
\* inside an oil slick only
CollisionDists == {0, 1100, 1200, 2600}

InitCollision ==
    /\ \E cones \in 0..MaxPerType, barriers \in 0..MaxPerType, oils \in 0..MaxPerType :
          LET types == TypesInOrder(cones, barriers, oils)
          IN  /\ track = [NewTrack(MAX_LEVEL, NumPoints) EXCEPT !.obstacles = Len(types)]
              /\ \E dists \in [1..Len(types) -> CollisionDists] :
                    outcome = [call |-> "none", error |-> "none", neutral |-> TRUE,
                               value |-> NoHit,
                               obstacles |-> [i \in 1..Len(types) |->
                                                [type |-> types[i],
                                                 radius |-> Radius(types[i]),
                                                 dist |-> dists[i]]]]
    /\ gameState = "playing"
    /\ currentLevel = MAX_LEVEL
    /\ levelSelect = [unlockedLevel |-> MAX_LEVEL, selectedLevel |-> MAX_LEVEL]
    /\ storage = MAX_LEVEL
    /\ playerCar = NewPlayerCar
    /\ aiCars = <<>>
    /\ racePositions = <<>>
    /\ raceFinished = FALSE
    /\ playerPosition = 1
    /\ winner = "none"
    /\ scale = [n |-> NumPoints, cars |-> 0]
    /\ keysDown = {}

\* playerCar.handleObstacles() at the position drawn, the collision it got
\* from track.checkObstacleCollision kept
HandleObstaclesCall ==
    /\ LET r == CheckObstacleCollision(track, [obstacles |-> outcome.obstacles])
       IN  /\ playerCar' = HandleObstacles(playerCar,
                               [hit |-> IF r.value.hit THEN r.value.type ELSE "none"])
           /\ outcome' = [outcome EXCEPT !.call = "handleObstacles",
                                          !.error = r.error,
                                          !.neutral = ~r.value.hit,
                                          !.value = r.value]
    /\ UNCHANGED <<gameState, currentLevel, levelSelect, storage, track, aiCars,
                   racePositions, raceFinished, playerPosition, winner, scale,
                   keysDown>>

SpecCollision == InitCollision /\ [][HandleObstaclesCall]_vars

\* the obstacles whose radius holds the position of the last call
Holding ==
    {i \in 1..Len(outcome.obstacles) :
        outcome.obstacles[i].dist < outcome.obstacles[i].radius}

\* C16: checkObstacleCollision returns the first obstacle of the list (cones,
\* then barriers, then oil slicks) whose distance to the position is less than
\* its radius, and hit false with null type and obstacle when there is none;
\* a player inside a cone and an oil slick gets the cone effect only
C16_FirstObstacleInListOrder ==
    outcome.call = "handleObstacles" =>
        /\ Holding = {} => outcome.value = NoHit
        /\ Holding # {} =>
              /\ outcome.value.hit
              /\ outcome.value.obstacle \in Holding
              /\ \A j \in Holding : outcome.value.obstacle <= j
              /\ outcome.value.type = outcome.obstacles[outcome.value.obstacle].type
        /\ (\E i, j \in Holding : /\ outcome.obstacles[i].type = "cone"
                                    /\ outcome.obstacles[j].type = "oil") =>
              /\ outcome.value.type = "cone"
              /\ playerCar.slowdownTimer = ConeDuration - 1
              /\ ~playerCar.onOil /\ playerCar.oilTimer = 0
              /\ playerCar.drift_factor = DriftNormal

\* the player is inside a cone and inside an oil slick that is nearer
C16_Witness ==
    /\ outcome.call = "handleObstacles"
    /\ \E i, j \in Holding : /\ outcome.obstacles[i].type = "cone"
                              /\ outcome.obstacles[j].type = "oil"
                              /\ outcome.obstacles[j].dist < outcome.obstacles[i].dist
    /\ outcome.value.type = "cone"

-----------------------------------------------------------------------------
(* SpecGenerate: new Track(level) for every level, the obstacles it pushes    *)
(* kept.  A random draw is a number of thousandths in 0..999, standing for a  *)
(* real in [0, 1); the draws of one construction are the numbers              *)
(* seed, seed + 389, seed + 2 * 389, ... modulo 1000.                         *)

RandomSeeds == 25  \* seeds of the random draws in SpecGenerate

\* the k-th draw of random() after the seed, k from 0
Draw(seed, k) == (seed + 389 * k) % 1000

\* floor(random(0, totalWaypoints)) for the draw r
WaypointIdxAnywhere(margin, totalWaypoints, r) == (r * totalWaypoints) \div 1000

\* floor(random(margin, totalWaypoints - margin)) for the draw r
WaypointIdx(margin, totalWaypoints, r) ==
    margin + (r * (totalWaypoints - margin - margin)) \div 1000

\* Track.generateObstacles: the obstacles pushed, each with its type, radius
\* and waypointIndex; every obstacle takes two draws, the first for its
\* waypoint index and the second for its side or offset
GenerateObstacleList(level, totalWaypoints, seed) ==
    LET numCones == Min(level + 2, 12)
        numBarriers == IF level >= 4 THEN Min(level - 2, 6) ELSE 0
        numOilSlicks == IF level >= 7 THEN Min(level - 5, 4) ELSE 0
        types == TypesInOrder(numCones, numBarriers, numOilSlicks)
        margin(type) == CASE type = "cone" -> 5
                          [] type = "barrier" -> 10
                          [] type = "oil" -> 15
    IN  IF totalWaypoints < 10 THEN <<>>
        ELSE [i \in 1..Len(types) |->
                [type |-> types[i], radius |-> Radius(types[i]),
                 waypointIndex |-> WaypointIdx(margin(types[i]), totalWaypoints,
                                               Draw(seed, 2 * (i - 1)))]]

InitGenerate ==
    /\ \E level \in 1..MAX_LEVEL, seed \in 0..(RandomSeeds - 1) :
          /\ currentLevel = level
          /\ outcome = [call |-> "none", error |-> "none", neutral |-> TRUE,
                        value |-> <<>>, seed |-> 40 * seed]
    /\ gameState = "levelSelect"
    /\ levelSelect = [unlockedLevel |-> MAX_LEVEL, selectedLevel |-> currentLevel]
    /\ storage = MAX_LEVEL
    /\ track = NewTrack(0, 0)
    /\ playerCar = NewPlayerCar
    /\ aiCars = <<>>
    /\ racePositions = <<>>
    /\ raceFinished = FALSE
    /\ playerPosition = 1
    /\ winner = "none"
    /\ scale = [n |-> NumPoints, cars |-> 0]
    /\ keysDown = {}

\* track = new Track(currentLevel), the obstacles of its generateObstacles kept
NewTrackCall ==
    /\ LET obstacles == GenerateObstacleList(currentLevel, NumPoints, outcome.seed)
       IN  /\ track' = [NewTrack(currentLevel, NumPoints) EXCEPT
                           !.obstacles = Len(obstacles)]
           /\ outcome' = [outcome EXCEPT !.call = "generateObstacles",
                                          !.neutral = obstacles = <<>>,
                                          !.value = obstacles,
                                          !.seed = Draw(outcome.seed, 2 * Len(obstacles))]
    /\ UNCHANGED <<gameState, currentLevel, levelSelect, storage, playerCar, aiCars,
                   racePositions, raceFinished, playerPosition, winner, scale,
                   keysDown>>

SpecGenerate == InitGenerate /\ [][NewTrackCall]_vars

\* the obstacles of type among the obstacles kept
OfType(type) == {i \in 1..Len(outcome.value) : outcome.value[i].type = type}

\* every obstacle of type is attached to a waypoint index in lo..(hi - 1)
IndicesWithin(type, lo, hi) ==
    \A i \in OfType(type) : outcome.value[i].waypointIndex \in lo..(hi - 1)

\* C17: a generated track of level L holds min(L+2, 12) cones, then
\* min(L-2, 6) barriers when L >= 4, then min(L-5, 4) oil slicks when L >= 7;
\* cones sit at waypoint indices in [5,75), barriers in [10,70), oil slicks in
\* [15,65), so every obstacle is at least 5 indices away from index 0
C17_ObstacleCountsAndIndices ==
    outcome.call = "generateObstacles" =>
        LET L == track.level
            cones == Min(L + 2, 12)
            barriers == IF L >= 4 THEN Min(L - 2, 6) ELSE 0
            oils == IF L >= 7 THEN Min(L - 5, 4) ELSE 0
        IN  /\ Len(outcome.value) = cones + barriers + oils
            /\ track.obstacles = cones + barriers + oils
            /\ OfType("cone") = 1..cones
            /\ OfType("barrier") = (cones + 1)..(cones + barriers)
            /\ OfType("oil") = (cones + barriers + 1)..(cones + barriers + oils)
            /\ IndicesWithin("cone", 5, 75)
            /\ IndicesWithin("barrier", 10, 70)
            /\ IndicesWithin("oil", 15, 65)
            /\ \A i \in 1..Len(outcome.value) :
                  /\ outcome.value[i].waypointIndex >= 5
                  /\ NumPoints - outcome.value[i].waypointIndex >= 5

\* a track of the last level: 12 cones, 6 barriers and 4 oil slicks, with a
\* cone at the lowest index a cone can get
C17_Witness ==
    /\ outcome.call = "generateObstacles"
    /\ track.level = MAX_LEVEL
    /\ Len(outcome.value) = 22
    /\ \E i \in OfType("cone") : outcome.value[i].waypointIndex = 5

-----------------------------------------------------------------------------
(* SpecVehicule: the force accumulator of an opponent.  The opponent moves on *)
(* a horizontal line of the canvas; position, velocity and acceleration are   *)
(* its x components in pixels, and the four forces of applyBehaviors are      *)
(* drawn, weights included.  A frame is taken in its two calls,               *)
(* ai.applyBehaviors(aiCars, playerCar) and ai.update(); outcome.call names   *)
(* the call made last.                                                        *)

CanvasWidth == 1000      \* createCanvas(1000, 700)
FollowerMaxspeed == 4    \* FollowerCar.maxspeed 4.0
FollowerRadius == 10     \* FollowerCar.r
ForceRange == 1            \* a force drawn is 0 or ForceRange either way

Forces == {-ForceRange, 0, ForceRange}

\* Vehicule.applyForce
ApplyForce(car, force) == [car EXCEPT !.acceleration = @ + force]

\* Vehicule.update without the reset of the acceleration
VehiculeUpdateKeepsForce(car) ==
    LET v == Limit(car.velocity + car.acceleration, car.maxspeed)
    IN  [car EXCEPT !.velocity = v, !.position = @ + v]

\* Vehicule.update on the line
VehiculeUpdateOnLine(car) ==
    LET v == Limit(car.velocity + car.acceleration, car.maxspeed)
    IN  [car EXCEPT !.velocity = v, !.position = @ + v, !.acceleration = 0]

\* Vehicule.edges, the left and right edges
Edges(car) ==
    LET margin == car.r
    IN  IF car.position < margin
        THEN [car EXCEPT !.position = margin, !.velocity = Trunc(-@, 2)]
        ELSE IF car.position > CanvasWidth - margin
             THEN [car EXCEPT !.position = CanvasWidth - margin,
                              !.velocity = Trunc(-@, 2)]
             ELSE car

\* FollowerCar.applyBehaviors with the forces it computed
ApplyBehaviorsOnLine(car, f) ==
    IF car.finished THEN car
    ELSE ApplyForce(ApplyForce(ApplyForce(ApplyForce(car, f.pathForce),
                                          f.separationForce),
                               f.playerAvoid),
                    f.boundaryForce)

\* FollowerCar.update on the line
FollowerUpdateOnLine(car) ==
    IF car.finished THEN car ELSE Edges(VehiculeUpdateOnLine(car))

\* an opponent as createAICars leaves it, on the line
NewFollowerOnLine(x) ==
    [position |-> x, velocity |-> 1, acceleration |-> 0,
     maxspeed |-> FollowerMaxspeed, r |-> FollowerRadius,
     laps |-> 0, checkpointsReached |-> 0, lastCheckpoint |-> 0,
     currentWaypointIndex |-> 0, finished |-> FALSE]

InitVehicule ==
    /\ aiCars = <<NewFollowerOnLine(CanvasWidth \div 2)>>
    /\ gameState = "playing"
    /\ currentLevel = 1
    /\ levelSelect = [unlockedLevel |-> 1, selectedLevel |-> 1]
    /\ storage = 0
    /\ track = NewTrack(1, NumPoints)
    /\ playerCar = NewPlayerCar
    /\ racePositions = <<>>
    /\ raceFinished = FALSE
    /\ playerPosition = 1
    /\ winner = "none"
    /\ scale = [n |-> NumPoints, cars |-> 1]
    /\ outcome = [call |-> "none", error |-> "none", neutral |-> TRUE, force |-> 0]
    /\ keysDown = {}

\* ai.applyBehaviors(aiCars, playerCar) of a frame
ApplyBehaviorsStep ==
    /\ gameState = "playing"
    /\ outcome.call # "applyBehaviors"
    /\ \E f \in [pathForce : Forces, separationForce : Forces,
                  playerAvoid : Forces, boundaryForce : Forces] :
          /\ aiCars' = [aiCars EXCEPT ![1] = ApplyBehaviorsOnLine(@, f)]
          /\ outcome' = [outcome EXCEPT
                            !.call = "applyBehaviors",
                            !.force = f.pathForce + f.separationForce
                                      + f.playerAvoid + f.boundaryForce]
    /\ UNCHANGED <<gameState, currentLevel, levelSelect, storage, track, playerCar,
                   racePositions, raceFinished, playerPosition, winner, scale,
                   keysDown>>

\* ai.update() of the frame
UpdateStep ==
    /\ gameState = "playing"
    /\ outcome.call = "applyBehaviors"
    /\ aiCars' = [aiCars EXCEPT ![1] = FollowerUpdateOnLine(@)]
    /\ outcome' = [outcome EXCEPT !.call = "update"]
    /\ UNCHANGED <<gameState, currentLevel, levelSelect, storage, track, playerCar,
                   racePositions, raceFinished, playerPosition, winner, scale,
                   keysDown>>

NextVehicule == ApplyBehaviorsStep \/ UpdateStep

SpecVehicule == InitVehicule /\ [][NextVehicule]_vars

\* the velocity Vehicule.update gives the opponent
Limited ==
    Limit(aiCars[1].velocity + aiCars[1].acceleration, aiCars[1].maxspeed)

\* position + velocity stays clear of the edges of the canvas
InsideCanvas ==
    aiCars[1].position + Limited \in
        aiCars[1].r..(CanvasWidth - aiCars[1].r)

\* C18: applyForce only adds the force to the accumulator; update sets the
\* velocity to velocity + accumulator limited to maxspeed, the position to
\* position + new velocity, and the accumulator to zero; the accumulator of an
\* opponent is zero at the start of every frame
C18_AccumulatorResetEachFrame ==
    [][/\ outcome'.call = "applyBehaviors" =>
             /\ aiCars[1].acceleration = 0
             /\ aiCars'[1].acceleration = aiCars[1].acceleration + outcome'.force
             /\ aiCars'[1].position = aiCars[1].position
             /\ aiCars'[1].velocity = aiCars[1].velocity
       /\ outcome'.call = "update" =>
             /\ aiCars'[1].acceleration = 0
             /\ InsideCanvas =>
                   /\ aiCars'[1].velocity = Limited
                   /\ aiCars'[1].position = aiCars[1].position + Limited]_vars

\* an update has limited the velocity to maxspeed and reset the accumulator
C18_Witness ==
    /\ outcome.call = "update"
    /\ outcome.force = 4 * ForceRange
    /\ aiCars[1].velocity = aiCars[1].maxspeed
    /\ aiCars[1].acceleration = 0

-----------------------------------------------------------------------------
(* The checkpoint of a competitor, under SpecLap: a step that writes a car is *)
(* a call that found the car within reach of the waypoint it tested,          *)
(* waypoints[(lastCheckpoint + 1) % length] for the player and                *)
(* waypoints[currentWaypointIndex] for an opponent.                           *)

\* C19: for the player and for an opponent, lastCheckpoint is the index of the
\* waypoint the competitor reached last, and its progress is
\* laps * waypointCount + that index
C19_CheckpointIsLastReached ==
    [][/\ playerCar' # playerCar =>
             LET reached == (playerCar.lastCheckpoint + 1) % track.n
             IN  /\ playerCar'.lastCheckpoint = reached
                 /\ Progress(playerCar', track.n) = playerCar'.laps * track.n + reached
       /\ (aiCars # <<>> /\ aiCars' # aiCars) =>
             LET reached == aiCars[1].currentWaypointIndex
             IN  /\ aiCars'[1].lastCheckpoint = reached
                 /\ Progress(aiCars'[1], track.n) = aiCars'[1].laps * track.n + reached]_vars

-----------------------------------------------------------------------------
(* SpecOrder: the order of the updates within a frame.  The player and two    *)
(* opponents drive along a straight stretch of the track of level 1 towards   *)
(* their next waypoint, which lies at coordinate 0 and out of reach; they are *)
(* inside the track (no boundary force), clear of obstacles and of the canvas *)
(* border, and no key is held.  Positions, velocities and forces are in       *)
(* hundredths.                                                                *)

DesiredSeparation == 5000     \* FollowerCar.desiredSeparation 50
FollowerReachDistance == 5500 \* FollowerCar.waypointReachDistance 55
OrderSteps == 2               \* the player starts 100 + 10 * k pixels from the
                              \* waypoint, k up to OrderSteps

Sign(a) == IF a > 0 THEN 1 ELSE IF a < 0 THEN -1 ELSE 0

\* Vehicule.seek of a target in the direction dir, as followPath returns it
Seek(car, dir) == Limit(dir * car.maxspeed - car.velocity, car.maxforce)

\* FollowerCar.avoidCar, in thousandths of a hundredth
AvoidCar(car, other) ==
    LET distance == Abs(car.position - other.position)
    IN  IF distance > 0 /\ distance < DesiredSeparation
        THEN Sign(car.position - other.position) * (10000000 \div distance)
        ELSE 0

\* FollowerCar.separate, the sum of the diffs of the vehicles from index j on
\* (in thousandths of a hundredth) and their count; car is vehicles[i]
RECURSIVE SeparateFrom(_, _, _, _)
SeparateFrom(car, i, vehicles, j) ==
    IF j > Len(vehicles) THEN [steer |-> 0, count |-> 0]
    ELSE LET rest == SeparateFrom(car, i, vehicles, j + 1)
             distance == Abs(car.position - vehicles[j].position)
         IN  IF j # i /\ distance > 0 /\ distance < DesiredSeparation
             THEN [steer |-> rest.steer + Sign(car.position - vehicles[j].position)
                                          * (10000000 \div distance),
                   count |-> rest.count + 1]
             ELSE rest

\* FollowerCar.separate
Separate(car, i, vehicles) ==
    LET sum == SeparateFrom(car, i, vehicles, 1)
    IN  IF sum.steer # 0
        THEN Limit(Sign(sum.steer) * car.maxspeed - car.velocity, 2 * car.maxforce)
        ELSE 0

\* FollowerCar.applyBehaviors, the four forces with their weights; car is
\* vehicles[i] and drives in the direction -1
BehaviorForces(car, i, vehicles, targetCar) ==
    [pathForce |-> Trunc(Seek(car, -1) * 15, 10),
     separationForce |-> Trunc(Separate(car, i, vehicles) * 25, 10),
     playerAvoid |-> Trunc(AvoidCar(car, targetCar) * 2, 1000),
     boundaryForce |-> 0]

\* the loop of updateGame over aiCars from index i on
RECURSIVE UpdateOpponents(_, _, _)
UpdateOpponents(vehicles, i, targetCar) ==
    IF i > Len(vehicles) THEN vehicles
    ELSE LET ai == vehicles[i]
             forces == BehaviorForces(ai, i, vehicles, targetCar)
             updated == IF ai.finished THEN ai
                        ELSE VehiculeUpdateOnLine(ApplyBehaviorsOnLine(ai, forces))
         IN  UpdateOpponents([vehicles EXCEPT ![i] = updated], i + 1, targetCar)

\* PlayerCar.update of a car in manual mode
PlayerUpdateInside(car, n) ==
    IF car.finished THEN car
    ELSE LET c1 == HandleInput(car, [nitroKey |-> FALSE])
             c2 == UpdateNitro(Boost(c1))
             c3 == Move(c2)
             c4 == HandleObstacles(c3, [hit |-> "none"])
         IN  CheckWaypoints(c4, n, FALSE)

\* an opponent at x as createAICars(1) leaves it: maxspeed 2.5 + 0.35,
\* maxforce 0.18 + 0.025, velocity 1.5 forward
OpponentOnLine(x) ==
    [position |-> x, velocity |-> -150, acceleration |-> 0,
     maxspeed |-> 285, maxforce |-> 20,
     laps |-> 0, checkpointsReached |-> 0, lastCheckpoint |-> 0,
     currentWaypointIndex |-> 0, finished |-> FALSE]

InitOrder ==
    /\ \E k \in 0..OrderSteps, gap1 \in {2000, 3500, 6000}, gap2 \in {2000, 3500, 6000} :
          LET x == 10000 + 1000 * k
          IN  /\ playerCar = [NewPlayerCar EXCEPT !.position = x, !.velocity = -300,
                                                  !.angle = -1]
              /\ aiCars = <<OpponentOnLine(x + gap1), OpponentOnLine(x + gap2)>>
    /\ gameState = "playing"
    /\ currentLevel = 1
    /\ levelSelect = [unlockedLevel |-> 1, selectedLevel |-> 1]
    /\ storage = 0
    /\ track = NewTrack(1, NumPoints)
    /\ racePositions = <<>>
    /\ raceFinished = FALSE
    /\ playerPosition = 1
    /\ winner = "none"
    /\ scale = [n |-> NumPoints, cars |-> 2]
    /\ outcome = NoCall
    /\ keysDown = {}

\* updateGame() while every car is out of reach of its next waypoint
OrderFrame ==
    /\ gameState = "playing"
    /\ playerCar.position > WaypointReachDistance
    /\ \A i \in 1..Len(aiCars) : aiCars[i].position > FollowerReachDistance
    /\ LET sorted == SortRacers(Racers(playerCar, aiCars, track.n))
           p1 == PlayerUpdateInside(playerCar, track.n)
       IN  /\ racePositions' = sorted
           /\ playerPosition' = PlayerRank(sorted)
           /\ playerCar' = p1
           /\ aiCars' = UpdateOpponents(aiCars, 1, p1)
    /\ UNCHANGED <<gameState, currentLevel, levelSelect, storage, track,
                   raceFinished, winner, scale, outcome, keysDown>>

SpecOrder == InitOrder /\ [][OrderFrame]_vars

\* opponent i after applyBehaviors and update with its forces computed from
\* the opponents vehicles and the player targetCar
UpdatedFrom(i, vehicles, targetCar) ==
    VehiculeUpdateOnLine(
        ApplyBehaviorsOnLine(aiCars[i],
                             BehaviorForces(aiCars[i], i, vehicles, targetCar)))

\* C20: in a frame the forces of every opponent are computed from the
\* positions and velocities the player and the opponents had at the end of the
\* previous frame, not from a position updated earlier in the same frame
C20_ForcesFromPreviousFrame ==
    [][\A i \in 1..Len(aiCars) :
          aiCars'[i] = UpdatedFrom(i, aiCars, playerCar)]_vars

-----------------------------------------------------------------------------
(* SpecOil: the player of level 10 drives by hand along a straight stretch of *)
(* road that passes through the centres of the obstacles Init draws on it, a  *)
(* cone and an oil slick at most, in the order generateObstacles pushes them. *)
(* The car enters the stretch at position 0 facing along it, with the speed   *)
(* Init draws, and the UP key is held for the whole stretch or not at all;    *)
(* position and velocity are numbers along the road, in hundredths.  The      *)
(* stretch is inside the track and away from the next checkpoint of the car.  *)

RoadLen == 450    \* frames are taken while the car is within RoadLen pixels
RoadMarks == 2    \* obstacle centres are drawn from RoadMarks places 20 px apart

\* the places of the obstacle centres on the road, in hundredths
Marks == {4000 + 2000 * k : k \in 0..RoadMarks}

\* the speeds the car enters the stretch with
EntrySpeeds == {0, 300, Maxspeed}

\* what checkObstacleCollision sees of a car on the road
OnRoad(car, obstacles) ==
    [obstacles |-> [i \in 1..Len(obstacles) |->
                      [type |-> obstacles[i].type,
                       radius |-> obstacles[i].radius,
                       dist |-> Abs(car.position - obstacles[i].at)]]]

\* PlayerCar.handleObstacles on the road: the velocity lines, then the timers
HandleObstaclesOnRoad(car, trk, obstacles) ==
    LET collision == CheckObstacleCollision(trk, OnRoad(car, obstacles)).value
        type == IF collision.hit THEN collision.type ELSE "none"
        v1 == IF type = "cone" THEN Trunc(car.velocity * 70, 100)
              ELSE IF type = "barrier"
                   THEN LET at == obstacles[collision.obstacle].at
                            bounceDir == IF car.position > at THEN 300
                                         ELSE IF car.position < at THEN -300 ELSE 0
                        IN  Trunc((car.velocity + bounceDir) * 50, 100)
                   ELSE car.velocity
        v2 == IF type = "cone" \/ car.slowdownTimer > 0
              THEN Trunc(v1 * 98, 100) ELSE v1
    IN  [HandleObstacles(car, [hit |-> type]) EXCEPT !.velocity = v2]

\* PlayerCar.update of the hand-driven car on the road
PlayerUpdateOnRoad(car, trk, keys, obstacles) ==
    IF car.finished THEN car
    ELSE LET in == [up |-> "UP" \in keys, down |-> "DOWN" \in keys,
                    nitroKey |-> "SHIFT" \in keys]
             c1 == HandleInput(Thrust(car, in), in)
             c2 == UpdateNitro(Boost(c1))
             c3 == Move(c2)
             c4 == HandleObstaclesOnRoad(c3, trk, obstacles)
         IN  CheckWaypoints(c4, trk.n, FALSE)

InitOil ==
    /\ \E cones \in 0..1, oils \in 0..1 :
          LET types == TypesInOrder(cones, 0, oils)
          IN  /\ track = [NewTrack(MAX_LEVEL, NumPoints) EXCEPT !.obstacles = Len(types)]
              /\ \E at \in [1..Len(types) -> Marks] :
                    outcome = [call |-> "none", error |-> "none", neutral |-> TRUE,
                               value |-> NoHit, sinceOil |-> 0,
                               obstacles |-> [i \in 1..Len(types) |->
                                                [type |-> types[i],
                                                 radius |-> Radius(types[i]),
                                                 at |-> at[i]]]]
    /\ \E speed \in EntrySpeeds :
          playerCar = [NewPlayerCar EXCEPT !.velocity = speed]
    /\ keysDown \in {{}, {"UP"}}
    /\ gameState = "playing"
    /\ currentLevel = MAX_LEVEL
    /\ levelSelect = [unlockedLevel |-> MAX_LEVEL, selectedLevel |-> MAX_LEVEL]
    /\ storage = MAX_LEVEL
    /\ aiCars = <<>>
    /\ racePositions = <<>>
    /\ raceFinished = FALSE
    /\ playerPosition = 1
    /\ winner = "none"
    /\ scale = [n |-> NumPoints, cars |-> 0]

\* playerCar.update() of a frame on the road; outcome keeps the collision the
\* update got (handleObstacles runs at the position the update leaves) and
\* sinceOil, the number of updates since the last one that
\* touched an oil slick, that one counted (0 before any, capped above
\* OilDuration)
OilFrame ==
    /\ gameState = "playing"
    /\ playerCar.position < RoadLen * 100
    /\ playerCar' = PlayerUpdateOnRoad(playerCar, track, keysDown, outcome.obstacles)
    /\ LET r == CheckObstacleCollision(track, OnRoad(playerCar', outcome.obstacles))
           oil == r.value.hit /\ r.value.type = "oil"
       IN  outcome' = [outcome EXCEPT
                          !.call = "update",
                          !.neutral = ~r.value.hit,
                          !.value = r.value,
                          !.sinceOil = IF oil THEN 1
                                       ELSE IF @ = 0 THEN 0
                                       ELSE Min(@ + 1, OilDuration + 1)]
    /\ UNCHANGED <<gameState, currentLevel, levelSelect, storage, track, aiCars,
                   racePositions, raceFinished, playerPosition, winner, scale,
                   keysDown>>

SpecOil == InitOil /\ [][OilFrame]_vars

\* the obstacle type the last update touched
Touched == IF outcome.value.hit THEN outcome.value.type ELSE "none"

\* C21 as stated: the oil effect and the cone slowdown are never active at the
\* same time, the obstacle response is one of normal, onOil and slowedByCone
C21_OilAndConeExclusive ==
    ~(playerCar.oilTimer > 0 /\ playerCar.slowdownTimer > 0)

\* C21: the obstacle response is a pair of independent timers: an update
\* that touches an oil slick leaves oilTimer at 59, one that touches a cone
\* leaves slowdownTimer at 29, every other update counts the timer down to 0
\* and no update touches the timer of the other type, so both effects can be
\* active at once; onOil holds exactly while oilTimer > 0
C21_TimersIndependent ==
    [][/\ playerCar'.oilTimer =
              IF Touched' = "oil" THEN OilDuration - 1
              ELSE Max(0, playerCar.oilTimer - 1)
       /\ playerCar'.slowdownTimer =
              IF Touched' = "cone" THEN ConeDuration - 1
              ELSE Max(0, playerCar.slowdownTimer - 1)
       /\ playerCar'.onOil <=> playerCar'.oilTimer > 0]_vars

\* the car touches a cone while the oil effect runs, and keeps both
C21_Witness ==
    /\ outcome.call = "update"
    /\ Touched = "cone"
    /\ playerCar.slowdownTimer = ConeDuration - 1
    /\ playerCar.oilTimer > 0
    /\ playerCar.onOil

\* C22: drift_factor is 0.98 from the update that touches an oil slick until
\* 60 updates, that one counted, have passed since the last touch, and 0.90
\* with onOil false from then on and before any touch; after every update
\* drift_factor is 0.98 exactly when oilTimer > 0, exactly when onOil holds
C22_OilLastsSixtyUpdates ==
    /\ playerCar.drift_factor = DriftOil <=> playerCar.oilTimer > 0
    /\ playerCar.onOil <=> playerCar.oilTimer > 0
    /\ playerCar.drift_factor \in {DriftOil, DriftNormal}
    /\ outcome.sinceOil \in 1..(OilDuration - 1) =>
          /\ playerCar.drift_factor = DriftOil
          /\ playerCar.oilTimer = OilDuration - outcome.sinceOil
    /\ (outcome.sinceOil = 0 \/ outcome.sinceOil >= OilDuration) =>
          /\ playerCar.drift_factor = DriftNormal
          /\ ~playerCar.onOil

\* the 60th update since the last touch has just passed: the car has left the
\* oil slick and the drift factor is normal again
C22_Witness ==
    /\ outcome.sinceOil = OilDuration
    /\ Touched # "oil"
    /\ playerCar.drift_factor = DriftNormal
    /\ ~playerCar.onOil

-----------------------------------------------------------------------------
(* Checkpoint counts of a race (SpecRace) *)

\* the count of every car is the index its lap test reads
CountsMatch(p, ais) ==
    /\ p.checkpointsReached = p.lastCheckpoint
    /\ \A i \in 1..Len(ais) :
          ais[i].checkpointsReached = ais[i].currentWaypointIndex

\* C23: from initLevel on, checkpointsReached of the player equals its
\* lastCheckpoint and that of every opponent its currentWaypointIndex; so
\* every wrap of the index from the last waypoint to 0 is made with a count
\* of waypointCount and increments laps: the 80% test never rejects a wrap
C23_CountEqualsIndex ==
    /\ CountsMatch(playerCar, aiCars)
    /\ [][/\ CountsMatch(playerCar', aiCars')
          /\ ~StartsRace =>
                /\ (/\ playerCar.lastCheckpoint = track.n - 1
                    /\ playerCar'.lastCheckpoint = 0) =>
                      /\ playerCar.checkpointsReached + 1 = track.n
                      /\ playerCar'.laps = playerCar.laps + 1
                /\ \A i \in 1..Len(aiCars) :
                      (/\ Len(aiCars') = Len(aiCars)
                       /\ aiCars[i].currentWaypointIndex = track.n - 1
                       /\ aiCars'[i].currentWaypointIndex = 0) =>
                         /\ aiCars[i].checkpointsReached + 1 = track.n
                         /\ aiCars'[i].laps = aiCars[i].laps + 1]_vars

\* the player is past the first waypoint of its second lap and an opponent
\* has just wrapped into its second lap
C23_Witness ==
    /\ gameState = "playing"
    /\ playerCar.laps = 1 /\ playerCar.checkpointsReached = 1
    /\ \E i \in 1..Len(aiCars) :
          /\ aiCars[i].laps = 1
          /\ aiCars[i].checkpointsReached = 0
          /\ aiCars[i].currentWaypointIndex = 0

-----------------------------------------------------------------------------
(* The rank shown when a race ends (SpecRace) *)

\* C24: on the lost screen (gameState 'raceLost', winner 'ai') playerPosition
\* is at least 2: the player is never ranked first in a race an opponent won
C24_LoserNotFirst ==
    (gameState = "raceLost" /\ winner = "ai") => playerPosition >= 2

\* C25: when the player has won (gameState 'levelComplete' or 'gameOver',
\* winner 'player') playerPosition is 1
C25_WinnerIsFirst ==
    (gameState \in {"levelComplete", "gameOver"} /\ winner = "player") =>
        playerPosition = 1

\* the player won a race in which, at the ranking of the last frame, an
\* opponent had the same progress
C25_Witness ==
    /\ gameState \in {"levelComplete", "gameOver"}
    /\ winner = "player"
    /\ playerCar.laps = LAPS_TO_WIN
    /\ Len(racePositions) >= 2
    /\ racePositions[1].type = "player"
    /\ racePositions[2].progress = racePositions[1].progress

-----------------------------------------------------------------------------
(* Properties of the game from setup on (Spec) *)

\* C26: at every frame boundary in the state 'playing' raceFinished is false,
\* winner is null and every competitor has fewer than LAPS_TO_WIN laps; no
\* competitor ever has more than LAPS_TO_WIN laps
C26_PlayingMeansUnfinished ==
    /\ gameState = "playing" =>
          /\ ~raceFinished
          /\ winner = "none"
          /\ \A c \in Competitors : c.laps < LAPS_TO_WIN
    /\ \A c \in Competitors : c.laps <= LAPS_TO_WIN

\* a race started after a won one is under way, the player and an opponent
\* each one lap from the end
C26_Witness ==
    /\ gameState = "playing"
    /\ levelSelect.unlockedLevel > 1
    /\ playerCar.laps = LAPS_TO_WIN - 1
    /\ \E i \in 1..Len(aiCars) : aiCars[i].laps = LAPS_TO_WIN - 1

\* C27: every call initLevel(L), whatever keys, clicks, resets and race
\* outcomes led to it, is made with L <= levelSelect.unlockedLevel
C27_StartOnlyUnlocked ==
    [][\A L \in 1..(MAX_LEVEL + 1) :
          InitLevel(L) => L <= levelSelect.unlockedLevel]_vars

\* level 2 was started by SPACE on the screen of a won level 1, the selected
\* card still being level 1
C27_Witness ==
    /\ gameState = "playing"
    /\ currentLevel = 2
    /\ levelSelect.selectedLevel = 1
    /\ levelSelect.unlockedLevel = 2
    /\ playerCar = NewPlayerCar

\* C29: currentLevel is always within 1..MAX_LEVEL: initLevel is never called
\* with a level above MAX_LEVEL, SPACE on the screen of a won last level
\* starts level 1
C29_LevelInRange ==
    currentLevel \in 1..MAX_LEVEL

\* level 1 was started by SPACE on the gameOver screen of a won level 10, the
\* selected card still being level 10
C29_Witness ==
    /\ gameState = "playing"
    /\ currentLevel = 1
    /\ levelSelect.selectedLevel = MAX_LEVEL
    /\ winner = "none"
    /\ playerCar = NewPlayerCar

\* C30: unlockedLevel and the stored value never exceed MAX_LEVEL, also after
\* the player has won level MAX_LEVEL
C30_UnlockedAtMostMax ==
    /\ levelSelect.unlockedLevel <= MAX_LEVEL
    /\ storage <= MAX_LEVEL

-----------------------------------------------------------------------------
(* SpecStart: the level-select screen with any card selected and any number   *)
(* of levels unlocked, and the race a key or a click starts from it with all  *)
(* the opponents createAICars puts on the track.                              *)

InitStart ==
    /\ gameState = "levelSelect"
    /\ \E unlocked \in 1..MAX_LEVEL, selected \in 1..MAX_LEVEL :
          /\ levelSelect = [unlockedLevel |-> unlocked, selectedLevel |-> selected]
          /\ storage = IF unlocked = 1 THEN 0 ELSE unlocked
    /\ currentLevel = 1
    /\ track = NewTrack(0, 0)
    /\ playerCar = NewPlayerCar
    /\ aiCars = <<>>
    /\ racePositions = <<>>
    /\ raceFinished = FALSE
    /\ playerPosition = 1
    /\ winner = "none"
    /\ scale = [n |-> NumPoints, cars |-> NumCars(MAX_LEVEL)]
    /\ outcome = NoCall
    /\ keysDown = {}

NextStart ==
    \/ KeyLevelSelect(" ")
    \/ \E card \in 1..MAX_LEVEL : MouseLevelSelect(card)

SpecStart == InitStart /\ [][NextStart]_vars

\* C28: for every level the number of opponents the level-select screen
\* announces, getLevelInfo(level).aiCount, is the number of opponent cars
\* createAICars(level) puts on the track
C28_AnnouncedOpponents ==
    gameState = "playing" => GetLevelInfo(currentLevel).aiCount = Len(aiCars)

====
